---- MODULE Spec2Model ----
(***************************************************************************)
(* A model of the skill triage engine of scripts/triage_skill_request.py:  *)
(* input classification (classify_input), domain detection                 *)
(* (detect_query_domains), relevance scoring (calculate_match_score),      *)
(* ranking (find_matching_skills) and the decision table                   *)
(* (make_triage_decision).                                                 *)
(*                                                                         *)
(* Text is modelled as TLA+ strings, read character by character with Len  *)
(* and SubSeq.  A regular expression is modelled by what it accepts: each  *)
(* element of a pattern maps the set of positions a match can have reached *)
(* to the set of positions it can reach next, so re.search(p, s) is "the   *)
(* set of end positions is not empty".  Python's None is the empty tuple   *)
(* and a present optional value v is the one-element tuple <<v>>.          *)
(***************************************************************************)
EXTENDS Integers, Sequences, FiniteSets, TLC

VARIABLES
    pc,        \* the step of the call that comes next
    query,     \* the user's input text
    skills,    \* the catalog: index["skills"]
    limit,     \* find_matching_skills' limit
    category,  \* the input category, None before classification
    signals,   \* the signals of classify_input
    scored,    \* calculate_match_score's result for each skill of the catalog
    matches,   \* the ranked match list
    action,    \* the decided action, None before the decision
    details,   \* the details of the decision
    index_file,  \* the index file on disk, as load_skill_index finds it
    result,      \* the Result triage_request returns, None before it returns
    vocabulary,  \* the module's DOMAIN_SYNONYMS dictionary
    calls,       \* the local state of each of several callers of the triage
    discovered,  \* discover_skills: the keywords and content of a skill file and its domains
    detection,   \* the list detect_query_domains returned, called on its own
    running      \* the locals score and reasons while one record is being scored

vars ==
    <<pc, query, skills, limit, category, signals, scored, matches, action, details,
      index_file, result, vocabulary, calls, discovered, detection, running>>

\* what a single call never writes: the file, the vocabulary, the other callers
shared == <<index_file, vocabulary, calls, discovered, detection, running>>

-----------------------------------------------------------------------------
(* Bounds of the model *)

\* the number of fragments a classified query is put together from
MaxFrags == 2

\* the number of records of a catalog
MaxCatalog == 2

\* the length of a match list handed to make_triage_decision
MaxMatches == 3

-----------------------------------------------------------------------------
(* Python values *)

None == <<>>

Some(v) == <<v>>

Min(S) == CHOOSE x \in S : \A y \in S : x <= y

Max(S) == CHOOSE x \in S : \A y \in S : x >= y

-----------------------------------------------------------------------------
(* Characters and strings *)

\* the character of s at position i, "" outside the string
At(s, i) == IF i >= 1 /\ i <= Len(s) THEN SubSeq(s, i, i) ELSE ""

Chars(s) == {SubSeq(s, i, i) : i \in 1..Len(s)}

UpperLetters == "ABCDEFGHIJKLMNOPQRSTUVWXYZ"

LowerLetters == "abcdefghijklmnopqrstuvwxyz"

Digits == "0123456789"

UpperSet == Chars(UpperLetters)

LetterSet == Chars(UpperLetters) \cup Chars(LowerLetters)

DigitSet == Chars(Digits)

WordCharSet == LetterSet \cup DigitSet \cup {"_"}

SpaceCharSet == {" ", "\n", "\t", "\r"}

\* regular expression classes \w, \s, \S, \d, . (without DOTALL), [^"], [^>], [a-zA-Z]
IsWord(c) == c \in WordCharSet

IsSpace(c) == c \in SpaceCharSet

IsNonSpace(c) == c # "" /\ c \notin SpaceCharSet

IsDigit(c) == c \in DigitSet

IsDot(c) == c # "" /\ c # "\n"

IsNotQuote(c) == c # "" /\ c # "\""

IsNotGt(c) == c # "" /\ c # ">"

IsLetter(c) == c \in LetterSet

LowerMap ==
    [c \in UpperSet |->
        LET i == CHOOSE k \in 1..Len(UpperLetters) : SubSeq(UpperLetters, k, k) = c
        IN  SubSeq(LowerLetters, i, i)]

LowerChar(c) == IF c \in UpperSet THEN LowerMap[c] ELSE c

\* str.lower()
RECURSIVE Lower(_)
Lower(s) == IF s = "" THEN "" ELSE LowerChar(SubSeq(s, 1, 1)) \o Lower(SubSeq(s, 2, Len(s)))

\* `t in s` on two strings
Contains(s, t) == \E i \in 1..(Len(s) - Len(t) + 1) : SubSeq(s, i, i + Len(t) - 1) = t

\* str.strip()
Strip(s) ==
    LET keep == {i \in 1..Len(s) : ~IsSpace(SubSeq(s, i, i))}
    IN  IF keep = {} THEN "" ELSE SubSeq(s, Min(keep), Max(keep))

\* str.replace(old, new) for a one-character old
RECURSIVE Replace(_, _, _)
Replace(s, old, new) ==
    IF s = "" THEN ""
    ELSE (IF SubSeq(s, 1, 1) = old THEN new ELSE SubSeq(s, 1, 1))
         \o Replace(SubSeq(s, 2, Len(s)), old, new)

\* str.split(): the maximal runs of non-whitespace characters, in order
RECURSIVE SplitFrom(_, _)
SplitFrom(s, i) ==
    IF i > Len(s) THEN <<>>
    ELSE IF IsSpace(SubSeq(s, i, i)) THEN SplitFrom(s, i + 1)
    ELSE LET stops == {j \in i..Len(s) : IsSpace(SubSeq(s, j, j))}
             e == IF stops = {} THEN Len(s) + 1 ELSE Min(stops)
         IN  <<SubSeq(s, i, e - 1)>> \o SplitFrom(s, e)

Split(s) == SplitFrom(s, 1)

\* set(s.split())
WordSet(s) == {Split(s)[i] : i \in 1..Len(Split(s))}

-----------------------------------------------------------------------------
(* Regular expression elements: from a set P of positions of s to the set  *)
(* of positions after the element                                          *)

AllPos(s) == 1..(Len(s) + 1)

\* whether the text lit stands in s from position x on
StartsAt(s, x, lit) == x >= 1 /\ x + Len(lit) - 1 <= Len(s) /\ SubSeq(s, x, x + Len(lit) - 1) = lit

Lit(s, P, lit) == {p + Len(lit) : p \in {x \in P : StartsAt(s, x, lit)}}

Alt(s, P, lits) == UNION {Lit(s, P, l) : l \in lits}

\* one or more characters of class C(_)
Plus(s, P, C(_)) ==
    UNION {{j \in (p + 1)..(Len(s) + 1) : \A k \in p..(j - 1) : C(At(s, k))} : p \in P}

\* zero or more characters of class C(_)
Star(s, P, C(_)) == P \cup Plus(s, P, C)

\* \b
Bnd(s, P) == {p \in P : IsWord(At(s, p - 1)) # IsWord(At(s, p))}

\* ^ under re.MULTILINE
LineStart(s, P) == {p \in P : p = 1 \/ At(s, p - 1) = "\n"}

\* one character of class C(_)
One(s, P, C(_)) == {p + 1 : p \in {x \in P : C(At(s, x))}}

-----------------------------------------------------------------------------
(* Input categories and actions *)

EXPLICIT_CREATE == "explicit_create"
EXPLICIT_IMPROVE == "explicit_improve"
SKILL_QUESTION == "skill_question"
TASK_REQUEST == "task_request"
ERROR_MESSAGE == "error_message"
CODE_SNIPPET == "code_snippet"
URL_CONTENT == "url_content"
GENERAL == "general"

InputCategory ==
    {EXPLICIT_CREATE, EXPLICIT_IMPROVE, SKILL_QUESTION, TASK_REQUEST,
     ERROR_MESSAGE, CODE_SNIPPET, URL_CONTENT, GENERAL}

USE_EXISTING == "USE_EXISTING"
IMPROVE_EXISTING == "IMPROVE_EXISTING"
CREATE_NEW == "CREATE_NEW"
COMPOSE == "COMPOSE"
CLARIFY == "CLARIFY"

Action == {USE_EXISTING, IMPROVE_EXISTING, CREATE_NEW, COMPOSE, CLARIFY}

\* what a call gives back when it raises instead of returning
AttributeError == "AttributeError"

-----------------------------------------------------------------------------
(* The pattern lists: each is the sequence of re.search results of its     *)
(* patterns on s, in the order of the list                                 *)

EXPLICIT_CREATE_PATTERNS(s) ==
    LET a1 == Plus(s, Alt(s, Bnd(s, AllPos(s)),
                          {"create", "build", "make", "design", "develop"}), IsSpace)
        a2 == a1 \cup Plus(s, Lit(s, a1, "a"), IsSpace)
        a3 == a2 \cup Plus(s, Lit(s, a2, "new"), IsSpace)
        b1 == Lit(s, Bnd(s, AllPos(s)), "skillforge")
        c1 == Plus(s, Alt(s, Bnd(s, AllPos(s)), {"new", "custom"}), IsSpace)
        c2 == Plus(s, Lit(s, c1, "skill"), IsSpace)
        d1 == Plus(s, Lit(s, Bnd(s, AllPos(s)), "ultimate"), IsSpace)
    IN  << Bnd(s, Lit(s, a3, "skill")) # {},
           (Lit(s, b1, ":") \cup One(s, b1, IsSpace)) # {},
           Bnd(s, Alt(s, c2, {"for", "to"})) # {},
           Bnd(s, Lit(s, d1, "skill")) # {} >>

EXPLICIT_IMPROVE_PATTERNS(s) ==
    LET a1 == Plus(s, Alt(s, Bnd(s, AllPos(s)),
                          {"improve", "enhance", "update", "upgrade", "fix", "extend"}), IsSpace)
        a2 == a1 \cup Plus(s, Lit(s, a1, "the"), IsSpace)
        a3 == a2 \cup Plus(s, Plus(s, a2, IsWord), IsSpace)
        b1 == Plus(s, Lit(s, Bnd(s, AllPos(s)), "skill"), IsSpace)
        b2 == Alt(s, b1, {"need", "needs"})
              \cup Lit(s, Plus(s, Lit(s, b1, "could"), IsSpace), "use")
              \cup Lit(s, Plus(s, Lit(s, b1, "should"), IsSpace), "have")
        c1 == Plus(s, Alt(s, Bnd(s, AllPos(s)), {"add", "include"}), IsSpace)
        c2 == Plus(s, Alt(s, c1, {"to", "in"}), IsSpace)
        c3 == c2 \cup Plus(s, Lit(s, c2, "the"), IsSpace)
        c4 == Plus(s, Plus(s, c3, IsWord), IsSpace)
    IN  << Bnd(s, Lit(s, a3, "skill")) # {},
           Bnd(s, b2) # {},
           Bnd(s, Lit(s, c4, "skill")) # {} >>

\* \b<first>\s+(?:a\s+)?skill\b
OptionalASkill(s, first) ==
    LET p1 == Plus(s, Lit(s, Bnd(s, AllPos(s)), first), IsSpace)
        p2 == p1 \cup Plus(s, Lit(s, p1, "a"), IsSpace)
    IN  Bnd(s, Lit(s, p2, "skill")) # {}

SKILL_QUESTION_PATTERNS(s) ==
    LET a1 == Plus(s, Lit(s, Bnd(s, AllPos(s)), "do"), IsSpace)
        a2 == Plus(s, Alt(s, a1, {"i", "we"}), IsSpace)
        a3 == Plus(s, Lit(s, a2, "have"), IsSpace)
        a4 == a3 \cup Plus(s, Lit(s, a3, "a"), IsSpace)
        b1 == Plus(s, Lit(s, Bnd(s, AllPos(s)), "which"), IsSpace)
        c1 == Plus(s, Lit(s, Bnd(s, AllPos(s)), "what"), IsSpace)
        e1 == Plus(s, Lit(s, Bnd(s, AllPos(s)), "skill"), IsSpace)
        h1 == Plus(s, Lit(s, Bnd(s, AllPos(s)), "is"), IsSpace)
        h2 == Plus(s, Lit(s, h1, "there"), IsSpace)
        h3 == h2 \cup Plus(s, Lit(s, h2, "a"), IsSpace)
    IN  << Bnd(s, Lit(s, a4, "skill")) # {},
           Bnd(s, Lit(s, b1, "skill")) # {},
           Bnd(s, Lit(s, c1, "skill")) # {},
           OptionalASkill(s, "recommend"),
           Bnd(s, Lit(s, e1, "for")) # {},
           OptionalASkill(s, "find"),
           OptionalASkill(s, "suggest"),
           Bnd(s, Lit(s, h3, "skill")) # {} >>

TASK_REQUEST_PATTERNS(s) ==
    LET a1 == Plus(s, Alt(s, Bnd(s, AllPos(s)), {"help", "assist"}), IsSpace)
        a2 == a1 \cup Plus(s, Lit(s, a1, "me"), IsSpace)
        b1 == Plus(s, Lit(s, Bnd(s, AllPos(s)), "i"), IsSpace)
        b2 == Plus(s, Lit(s, b1, "need"), IsSpace)
        c1 == Plus(s, Lit(s, Bnd(s, AllPos(s)), "how"), IsSpace)
        c2 == Lit(s, Plus(s, Lit(s, c1, "do"), IsSpace), "i")
              \cup Lit(s, Plus(s, Lit(s, c1, "can"), IsSpace), "i")
              \cup Lit(s, c1, "to")
        d1 == Plus(s, Lit(s, Bnd(s, AllPos(s)), "can"), IsSpace)
        e1 == Bnd(s, Lit(s, Bnd(s, AllPos(s)), "please"))
        e2 == Bnd(s, Star(s, e1, IsDot))
    IN  << Bnd(s, Alt(s, a2, {"with", "to"})) # {},
           Bnd(s, Lit(s, b2, "to")) # {},
           Bnd(s, c2) # {},
           Bnd(s, Lit(s, d1, "you")) # {},
           Bnd(s, Alt(s, e2, {"help", "do", "make", "create", "fix", "build"})) # {} >>

ERROR_PATTERNS(s) ==
    LET f1 == Plus(s, Lit(s, AllPos(s), "at"), IsSpace)
        f2 == Plus(s, Plus(s, f1, IsNonSpace), IsSpace)
        h1 == Plus(s, Lit(s, AllPos(s), "File \""), IsNotQuote)
        h2 == Lit(s, h1, "\", line ")
    IN  << Lit(s, AllPos(s), "Error:") # {},
           Lit(s, AllPos(s), "Exception:") # {},
           Lit(s, AllPos(s), "TypeError:") # {},
           Lit(s, AllPos(s), "ReferenceError:") # {},
           Lit(s, AllPos(s), "SyntaxError:") # {},
           Lit(s, f2, "(") # {},
           Lit(s, AllPos(s), "Traceback (most recent call") # {},
           Plus(s, h2, IsDigit) # {} >>

CODE_PATTERNS(s) ==
    LET ls == Star(s, LineStart(s, AllPos(s)), IsSpace)
        a1 == Alt(s, ls, {"function", "const", "let", "var", "class", "import",
                          "export", "def", "async", "await"})
        b1 == One(s, Lit(s, ls, "<"), IsLetter)
    IN  << Plus(s, a1, IsSpace) # {},
           Lit(s, Star(s, b1, IsNotGt), ">") # {},
           Lit(s, AllPos(s), "=>") # {},
           Plus(s, Lit(s, ls, "@"), IsWord) # {} >>

URL_PATTERNS(s) ==
    << Plus(s, Lit(s, Alt(s, AllPos(s), {"http", "https"}), "://"), IsNonSpace) # {} >>

\* a search that tries the first pattern of a list only
FirstPatternOnly(results) == results[1]

\* `for pattern in PATTERNS: if re.search(pattern, text)` finds a pattern
AnyMatch(results) == \E i \in 1..Len(results) : results[i]

-----------------------------------------------------------------------------
(* The two captures of classify_input *)

\* the (a, b) such that r'skill\s+(?:for|to)\s+(.+?)(?:\.|$)' matches from i
\* with group 1 = s[a .. b-1]
PurposeGroups(s, i) ==
    LET p1 == Plus(s, Lit(s, {i}, "skill"), IsSpace)
        p2 == Plus(s, Alt(s, p1, {"for", "to"}), IsSpace)
        EndOk(b) == \/ At(s, b) = "."
                    \/ b = Len(s) + 1
                    \/ (b = Len(s) /\ At(s, b) = "\n")
    IN  {g \in p2 \X AllPos(s) :
            /\ g[1] < g[2]
            /\ \A k \in g[1]..(g[2] - 1) : IsDot(At(s, k))
            /\ EndOk(g[2])}

\* purpose_match.group(1).strip() of the leftmost match: \s+ is greedy (the
\* group starts as late as it can), .+? is lazy (it ends as early as it can)
extracted_purpose(s) ==
    LET starts == {i \in AllPos(s) : PurposeGroups(s, i) # {}}
    IN  IF starts = {} THEN None
        ELSE LET G == PurposeGroups(s, Min(starts))
                 a == Max({g[1] : g \in G})
                 b == Min({g[2] : g \in {h \in G : h[1] = a}})
             IN  Some(Strip(SubSeq(s, a, b - 1)))

\* \w+(?:-\w+)* spans s[a .. b-1]
IsNameToken(s, a, b) ==
    /\ a < b
    /\ \A k \in a..(b - 1) : IsWord(At(s, k)) \/ At(s, k) = "-"
    /\ IsWord(At(s, a)) /\ IsWord(At(s, b - 1))
    /\ \A k \in a..(b - 2) : ~(At(s, k) = "-" /\ At(s, k + 1) = "-")

\* the (a, b) of group 1 when (\w+(?:-\w+)*)\s+skill matches from a
NameGroups(s, P) ==
    {g \in P \X AllPos(s) :
        /\ IsNameToken(s, g[1], g[2])
        /\ Lit(s, Plus(s, {g[2]}, IsSpace), "skill") # {}}

\* group 1 of r'(?:improve|enhance|update|fix)\s+(?:the\s+)?(\w+(?:-\w+)*)\s+skill'
\* matching from i: the branch that takes "the" is tried first
SkillMatchGroups(s, i) ==
    LET p1 == Plus(s, Alt(s, {i}, {"improve", "enhance", "update", "fix"}), IsSpace)
        withThe == NameGroups(s, Plus(s, Lit(s, p1, "the"), IsSpace))
    IN  IF withThe # {} THEN withThe ELSE NameGroups(s, p1)

mentioned_skill_name(s) ==
    LET starts == {i \in AllPos(s) : SkillMatchGroups(s, i) # {}}
    IN  IF starts = {} THEN None
        ELSE LET G == SkillMatchGroups(s, Min(starts))
                 a == Max({g[1] : g \in G})
                 b == Max({g[2] : g \in {h \in G : h[1] = a}})
             IN  Some(SubSeq(s, a, b - 1))

-----------------------------------------------------------------------------
(* classify_input *)

InitialSignals(q) ==
    [has_skill_mention |-> Contains(Lower(q), "skill"),
     has_error |-> FALSE,
     has_code |-> FALSE,
     has_url |-> FALSE,
     mentioned_skill_name |-> None,
     extracted_purpose |-> None]

\* a classification that looks for a URL before it looks for an error or code
classify_input_url_first(q) ==
    LET query_lower == Lower(q)
        sig == InitialSignals(q)
    IN  IF AnyMatch(EXPLICIT_CREATE_PATTERNS(query_lower))
        THEN <<EXPLICIT_CREATE,
               [sig EXCEPT !.extracted_purpose = extracted_purpose(query_lower)]>>
        ELSE IF AnyMatch(EXPLICIT_IMPROVE_PATTERNS(query_lower))
        THEN <<EXPLICIT_IMPROVE,
               [sig EXCEPT !.mentioned_skill_name = mentioned_skill_name(query_lower)]>>
        ELSE IF AnyMatch(SKILL_QUESTION_PATTERNS(query_lower))
        THEN <<SKILL_QUESTION, sig>>
        ELSE IF AnyMatch(URL_PATTERNS(q))
        THEN <<URL_CONTENT, [sig EXCEPT !.has_url = TRUE]>>
        ELSE IF AnyMatch(ERROR_PATTERNS(q))
        THEN <<ERROR_MESSAGE, [sig EXCEPT !.has_error = TRUE]>>
        ELSE IF AnyMatch(CODE_PATTERNS(q))
        THEN <<CODE_SNIPPET, [sig EXCEPT !.has_code = TRUE]>>
        ELSE IF AnyMatch(TASK_REQUEST_PATTERNS(query_lower))
        THEN <<TASK_REQUEST, sig>>
        ELSE <<GENERAL, sig>>

\* a classification that sets the three flags before it looks at any group
classify_input_flags_first(q) ==
    LET classified == classify_input_url_first(q)
    IN  IF classified[1] \in {ERROR_MESSAGE, CODE_SNIPPET, URL_CONTENT}
        THEN <<ERROR_MESSAGE, [classified[2] EXCEPT !.has_error = TRUE, !.has_code = FALSE, !.has_url = FALSE]>>
        ELSE <<classified[1], [classified[2] EXCEPT !.has_error = AnyMatch(ERROR_PATTERNS(q)),
                                                     !.has_code = AnyMatch(CODE_PATTERNS(q)),
                                                     !.has_url = AnyMatch(URL_PATTERNS(q))]>>

\* the (category, signals) pair classify_input returns
classify_input(q) ==
    LET query_lower == Lower(q)
        sig == InitialSignals(q)
    IN  IF AnyMatch(EXPLICIT_CREATE_PATTERNS(query_lower))
        THEN <<EXPLICIT_CREATE,
               [sig EXCEPT !.extracted_purpose = extracted_purpose(query_lower)]>>
        ELSE IF AnyMatch(EXPLICIT_IMPROVE_PATTERNS(query_lower))
        THEN <<EXPLICIT_IMPROVE,
               [sig EXCEPT !.mentioned_skill_name = mentioned_skill_name(query_lower)]>>
        ELSE IF AnyMatch(SKILL_QUESTION_PATTERNS(query_lower))
        THEN <<SKILL_QUESTION, sig>>
        ELSE IF AnyMatch(ERROR_PATTERNS(q))
        THEN <<ERROR_MESSAGE, [sig EXCEPT !.has_error = TRUE]>>
        ELSE IF AnyMatch(CODE_PATTERNS(q))
        THEN <<CODE_SNIPPET, [sig EXCEPT !.has_code = TRUE]>>
        ELSE IF AnyMatch(URL_PATTERNS(q))
        THEN <<URL_CONTENT, [sig EXCEPT !.has_url = TRUE]>>
        ELSE IF AnyMatch(TASK_REQUEST_PATTERNS(query_lower))
        THEN <<TASK_REQUEST, sig>>
        ELSE <<GENERAL, sig>>

-----------------------------------------------------------------------------
(* Lists *)

SeqToSet(seq) == {seq[i] : i \in 1..Len(seq)}

\* seq[:n]
Take(seq, n) == SubSeq(seq, 1, IF Len(seq) < n THEN Len(seq) ELSE n)

\* the list f as a tuple of its elements
AsList(f) == f \o <<>>

\* [x.lower() for x in seq]
MapLower(seq) == AsList([i \in 1..Len(seq) |-> Lower(seq[i])])

\* sep.join(seq)
RECURSIVE Join(_, _)
Join(seq, sep) ==
    IF seq = <<>> THEN ""
    ELSE IF Len(seq) = 1 THEN seq[1]
    ELSE seq[1] \o sep \o Join(Tail(seq), sep)

\* str(n) for a natural number n
RECURSIVE IntToStr(_)
IntToStr(n) ==
    IF n < 10 THEN SubSeq(Digits, n + 1, n + 1)
    ELSE IntToStr(n \div 10) \o SubSeq(Digits, (n % 10) + 1, (n % 10) + 1)

\* list.sort(key=..., reverse=True) on the list of keys: the indices of the
\* list in sorted order; the sort is stable, so equal keys keep their order
RECURSIVE StableDescOrder(_)
StableDescOrder(keys) ==
    IF keys = <<>> THEN <<>>
    ELSE LET n == Len(keys)
             prev == StableDescOrder(SubSeq(keys, 1, n - 1))
             k == Cardinality({i \in 1..(n - 1) : keys[prev[i]] >= keys[n]})
         IN  SubSeq(prev, 1, k) \o <<n>> \o SubSeq(prev, k + 1, n - 1)

\* the elements of a set of words in the order they come in a list of words
\* (the model's stand-in for the iteration order of a Python set, which the
\* program fixes no further)
InOrderOf(words, S) ==
    LET firsts == {i \in 1..Len(words) :
                      words[i] \in S /\ \A j \in 1..(i - 1) : words[j] # words[i]}
        Pick[i \in 0..Len(words)] ==
            IF i = 0 THEN <<>>
            ELSE IF i \in firsts THEN Append(Pick[i - 1], words[i]) ELSE Pick[i - 1]
    IN  Pick[Len(words)]

\* dict.get(key, default) on a skill record
HasKey(skill, key) == key \in DOMAIN skill

GetList(skill, key) == IF HasKey(skill, key) THEN skill[key] ELSE <<>>

GetStr(skill, key) == IF HasKey(skill, key) THEN skill[key] ELSE ""

-----------------------------------------------------------------------------
(* The domain vocabulary, in the order of the dictionary *)

DOMAIN_SYNONYMS ==
    << <<"spreadsheet", <<"excel", "xlsx", "xls", "csv", "workbook", "tabular", "data table", "cells", "rows columns">> >>,
       <<"document", <<"word", "docx", "doc", "text document", "write document", "report">> >>,
       <<"presentation", <<"powerpoint", "pptx", "slides", "deck", "slide deck", "keynote", "pitch">> >>,
       <<"pdf", <<"pdf", "export pdf", "portable document">> >>,
       <<"debugging", <<"debug", "error", "exception", "stack trace", "traceback", "crash", "fix bug", "breakpoint", "investigate">> >>,
       <<"testing", <<"test", "unit test", "integration test", "e2e", "coverage", "spec", "tdd", "jest", "vitest", "pytest", "mocha">> >>,
       <<"security", <<"security", "vulnerability", "owasp", "audit", "secure", "penetration", "pentest", "xss", "injection">> >>,
       <<"code_quality", <<"review", "code review", "pr review", "pull request", "refactor", "clean code", "code smell", "lint">> >>,
       <<"database", <<"database", "db", "schema", "migration", "sql", "postgres", "mysql", "mongodb", "data model", "orm">> >>,
       <<"api", <<"api", "rest", "graphql", "endpoint", "openapi", "swagger", "restful", "http">> >>,
       <<"frontend", <<"ui", "ux", "frontend", "react", "vue", "angular", "css", "styling", "component", "user interface">> >>,
       <<"accessibility", <<"accessibility", "a11y", "wcag", "screen reader", "aria", "keyboard navigation">> >>,
       <<"performance", <<"performance", "optimize", "slow", "speed", "fast", "bottleneck", "profiling", "cache">> >>,
       <<"authentication", <<"auth", "login", "authentication", "oauth", "jwt", "session", "sign in", "sign up", "password">> >>,
       <<"deployment", <<"deploy", "deployment", "production", "release", "ship", "hosting", "ci", "cd", "pipeline">> >>,
       <<"devops", <<"docker", "kubernetes", "k8s", "container", "helm", "terraform", "infrastructure">> >>,
       <<"documentation", <<"documentation", "docs", "readme", "changelog", "api docs", "jsdoc">> >>,
       <<"architecture", <<"architecture", "system design", "design pattern", "microservices", "monolith">> >>,
       <<"workflow", <<"flowchart", "diagram", "workflow", "process", "swimlane", "sequence diagram", "uml">> >>,
       <<"ai_ml", <<"ai", "ml", "machine learning", "llm", "rag", "embedding", "langchain", "prompt", "model">> >>,
       <<"visual", <<"visual", "image", "graphic", "art", "canvas", "design">> >> >>

\* for each domain of the vocabulary, its terms found in the query
MatchedTerms(query_lower) ==
    AsList([i \in 1..Len(DOMAIN_SYNONYMS) |->
               SelectSeq(DOMAIN_SYNONYMS[i][2], LAMBDA term : Contains(query_lower, term))])

\* detected: a (domain, matched_terms) pair for each domain with a term found
Detected(matched) ==
    LET hit == SelectSeq([i \in 1..Len(DOMAIN_SYNONYMS) |-> i], LAMBDA i : matched[i] # <<>>)
    IN  AsList([k \in 1..Len(hit) |-> <<DOMAIN_SYNONYMS[hit[k]][1], matched[hit[k]]>>])

\* the detected list left in the order of the dictionary
DictionaryOrder(found) == found

\* detected.sort(key=lambda x: len(x[1]), reverse=True)
ByMatchCount(detected) ==
    LET order == StableDescOrder(AsList([k \in 1..Len(detected) |-> Len(detected[k][2])]))
    IN  AsList([k \in 1..Len(detected) |-> detected[order[k]]])

\* the (domain, matched_terms) pairs of the query, most matched terms first
detect_query_domains(q) == ByMatchCount(Detected(MatchedTerms(Lower(q))))

-----------------------------------------------------------------------------
(* calculate_match_score: the score and the reasons are carried from step  *)
(* to step as a record acc                                                 *)

\* a score that is returned as it was added up
UncappedScore(score) == score

\* min(100, score)
CappedScore(score) == IF score < 100 THEN score ELSE 100

\* `sub in str(reasons)`: the text of a list of strings holds sub only inside
\* one of its elements
InReasons(reasons, sub) == \E i \in 1..Len(reasons) : Contains(reasons[i], sub)

\* the first index of seq that satisfies Test, 0 when there is none
FirstIndex(seq, Test(_)) ==
    IF \E i \in 1..Len(seq) : Test(seq[i])
    THEN Min({i \in 1..Len(seq) : Test(seq[i])})
    ELSE 0

\* score += points; reasons.append(reason)
AddReason(acc, points, reason) ==
    [score |-> acc.score + points, reasons |-> Append(acc.reasons, reason)]

\* score += points
AddScore(acc, points) == [score |-> acc.score + points, reasons |-> acc.reasons]

\* the fields of a skill record as calculate_match_score reads them; the
\* triggers keep the order of the record
SkillFields(skill) ==
    [name |-> Lower(IF HasKey(skill, "name") THEN skill.name[1] ELSE ""),
     keywords |-> SeqToSet(MapLower(GetList(skill, "keywords"))),
     triggers |-> MapLower(GetList(skill, "triggers")),
     domains |-> SeqToSet(MapLower(GetList(skill, "domains"))),
     description |-> Lower(GetStr(skill, "description"))]

\* min(50, 35 + len(matched_terms) * 5)
DomainScore(matched_terms) ==
    IF 35 + Len(matched_terms) * 5 < 50 THEN 35 + Len(matched_terms) * 5 ELSE 50

\* a domain step that adds for every detected domain the skill is tagged with
RECURSIVE DomainStepEach(_, _, _)
DomainStepEach(acc, sk, query_domains) ==
    IF query_domains = <<>> THEN acc
    ELSE DomainStepEach(
           IF query_domains[1][1] \in sk.domains
           THEN AddReason(acc, DomainScore(query_domains[1][2]), "domain: " \o query_domains[1][1])
           ELSE acc,
           sk, Tail(query_domains))

\* a scoring that has no domain step
DomainStepSkipped(acc, sk, query_domains) == acc

\* Step 2: the best detected domain that the skill is tagged with
DomainStep(acc, sk, query_domains) ==
    LET d == FirstIndex(query_domains, LAMBDA e : e[1] \in sk.domains)
    IN  IF d = 0 THEN acc
        ELSE AddReason(acc, DomainScore(query_domains[d][2]),
                       "domain: " \o query_domains[d][1] \o " ("
                       \o Join(Take(query_domains[d][2], 2), ", ") \o ")")

\* the first matched term of a detected domain that is a keyword of the skill
KeywordTerm(e, sk) == FirstIndex(e[2], LAMBDA term : term \in sk.keywords)

\* Step 3: a matched term, or the domain's name, among the keywords
KeywordStep(acc, sk, query_domains) ==
    LET k == FirstIndex(query_domains,
                        LAMBDA e : \/ KeywordTerm(e, sk) # 0
                                   \/ e[1] \in sk.keywords
                                   \/ Replace(e[1], "_", " ") \in sk.keywords)
    IN  IF k = 0 THEN acc
        ELSE IF KeywordTerm(query_domains[k], sk) # 0
        THEN AddReason(acc, 15, "keyword: "
                                \o query_domains[k][2][KeywordTerm(query_domains[k], sk)])
        ELSE AddReason(acc, 15, "keyword: " \o query_domains[k][1])

\* the first matched term of a detected domain that the description holds
DescriptionTerm(e, sk) == FirstIndex(e[2], LAMBDA term : Contains(sk.description, term))

\* a matched term, or the domain's name, in the description
DescriptionStep(acc, sk, query_domains) ==
    LET c == FirstIndex(query_domains,
                        LAMBDA e : \/ DescriptionTerm(e, sk) # 0
                                   \/ Contains(sk.description, e[1]))
    IN  IF c = 0 THEN acc
        ELSE IF DescriptionTerm(query_domains[c], sk) # 0
        THEN AddReason(acc, 10, "description: "
                                \o query_domains[c][2][DescriptionTerm(query_domains[c], sk)])
        ELSE AddReason(acc, 10, "description: " \o query_domains[c][1])

\* query_words & name_words
NameOverlap(words, sk) ==
    InOrderOf(words, SeqToSet(words)
                     \cap SeqToSet(Split(Replace(Replace(sk.name, "-", " "), "_", " "))))

\* Step 4: the skill's name, or one of its words, in the query
NameStep(acc, query_lower, words, sk) ==
    IF Contains(query_lower, sk.name)
    THEN AddReason(acc, 35, "name match: " \o sk.name)
    ELSE IF \E w \in SeqToSet(NameOverlap(words, sk)) : Len(w) > 3
    THEN AddReason(acc, 20, "partial name: " \o Join(NameOverlap(words, sk), ", "))
    ELSE acc

\* Step 5: the first trigger phrase found in the query
TriggerStep(acc, query_lower, sk) ==
    LET t == FirstIndex(sk.triggers, LAMBDA trigger : Contains(query_lower, trigger))
    IN  IF t = 0 THEN acc ELSE AddReason(acc, 25, "trigger: " \o sk.triggers[t])

\* [w for w in query_words & skill_keywords if len(w) > 3]
SignificantOverlap(words, sk) ==
    SelectSeq(InOrderOf(words, SeqToSet(words) \cap sk.keywords), LAMBDA w : Len(w) > 3)

\* min(20, len(significant_overlap) * 6)
KeywordScore(significant_overlap) ==
    IF Len(significant_overlap) * 6 < 20 THEN Len(significant_overlap) * 6 ELSE 20

\* Step 6: query words among the keywords
OverlapStep(acc, significant_overlap) ==
    IF significant_overlap = <<>> THEN acc
    ELSE IF InReasons(acc.reasons, "keyword:")
    THEN AddScore(acc, KeywordScore(significant_overlap))
    ELSE AddReason(acc, KeywordScore(significant_overlap),
                   "keywords: " \o Join(Take(significant_overlap, 3), ", "))

\* Step 7: query words in the description
FallbackStep(acc, words, sk) ==
    IF /\ Cardinality({w \in SeqToSet(words) \cap WordSet(sk.description) : Len(w) > 4}) >= 2
       /\ ~InReasons(acc.reasons, "description:")
    THEN AddReason(acc, 8, "description overlap")
    ELSE acc

\* return min(100, score), reasons
Returned(acc) == [score |-> CappedScore(acc.score), reasons |-> acc.reasons]

\* steps 2 to 7 on the lower-cased query, its words and the skill's fields
ScoreSteps(query_lower, words, sk, query_domains) ==
    Returned(
      FallbackStep(
        OverlapStep(
          TriggerStep(
            NameStep(
              DescriptionStep(
                KeywordStep(
                  DomainStep([score |-> 0, reasons |-> <<>>], sk, query_domains),
                  sk, query_domains),
                sk, query_domains),
              query_lower, words, sk),
            query_lower, sk),
          SignificantOverlap(words, sk)),
        words, sk))

\* the body of calculate_match_score after query_domains has been computed
ScoreWithDomains(q, skill, query_domains) ==
    ScoreSteps(Lower(q), Split(Lower(q)), SkillFields(skill), query_domains)

\* the (score, reasons) pair calculate_match_score returns
calculate_match_score(q, skill) == ScoreWithDomains(q, skill, detect_query_domains(q))

-----------------------------------------------------------------------------
(* find_matching_skills *)

\* min(15, len(matching_domains) * 5)
AlignmentBonus(matching_domains) ==
    IF Cardinality(matching_domains) * 5 < 15 THEN Cardinality(matching_domains) * 5 ELSE 15

\* error context + debugging domain boost
ErrorBoost(acc, sig, skill_domains) ==
    IF sig.has_error /\ "debugging" \in skill_domains
    THEN AddReason(acc, 25, "error context boost") ELSE acc

\* code context + code quality domain boost
CodeBoost(acc, sig, skill_domains) ==
    IF sig.has_code /\ "code_quality" \in skill_domains
    THEN AddReason(acc, 15, "code context boost") ELSE acc

\* URL context boost for code-related domains
UrlBoost(acc, sig, skill_domains) ==
    IF sig.has_url /\ skill_domains \cap {"code_quality", "api", "documentation"} # {}
    THEN AddReason(acc, 10, "URL context boost") ELSE acc

\* boost for the domains the skill shares with the query
AlignmentBoost(acc, matching_domains) ==
    IF matching_domains # {} /\ acc.score > 0
    THEN AddScore(acc, AlignmentBonus(matching_domains)) ELSE acc

\* the four boosts on the lower-cased domains of the skill
Boosts(base, sig, skill_domains, query_domain_names) ==
    AlignmentBoost(
      UrlBoost(CodeBoost(ErrorBoost(base, sig, skill_domains), sig, skill_domains),
               sig, skill_domains),
      skill_domains \cap query_domain_names)

\* the score and reasons of one skill after the context boosts, before the
\* clamp; base is the (score, reasons) pair calculate_match_score returned
BoostedScore(skill, base, sig, query_domains) ==
    Boosts(base, sig, SeqToSet(MapLower(GetList(skill, "domains"))),
           {query_domains[i][1] : i \in 1..Len(query_domains)})

\* the entry of the match list made for a skill
MatchEntry(skill, boosted) ==
    [name |-> IF HasKey(skill, "name") THEN skill.name ELSE None,
     score |-> CappedScore(boosted.score),
     reasons |-> boosted.reasons,
     source |-> IF HasKey(skill, "source") THEN Some(skill.source) ELSE None,
     description |-> Take(GetStr(skill, "description"), 100),
     domains |-> GetList(skill, "domains")]

\* a match list left in the order of the catalog
CatalogOrder(ms) == ms

\* the list of the entries in the order of their indices in `order`
Reordered(ms, order) == AsList([i \in 1..Len(ms) |-> ms[order[i]]])

\* a descending sort that puts the later of two equal scores first
SortTiesReversed(ms) ==
    Reordered(Reordered(ms, [i \in 1..Len(ms) |-> Len(ms) + 1 - i]),
              StableDescOrder(AsList([i \in 1..Len(ms) |-> ms[Len(ms) + 1 - i].score])))

\* matches.sort(key=lambda m: m["score"], reverse=True)
SortMatches(ms) == Reordered(ms, StableDescOrder(AsList([i \in 1..Len(ms) |-> ms[i].score])))

\* calculate_match_score for each skill of the catalog
AllScores(q, catalog, query_domains) ==
    AsList([i \in 1..Len(catalog) |-> ScoreWithDomains(q, catalog[i], query_domains)])

\* the boosted (score, reasons) pair of each skill of the catalog
AllBoosted(catalog, scores, sig, query_domains) ==
    AsList([i \in 1..Len(catalog) |-> BoostedScore(catalog[i], scores[i], sig, query_domains)])

\* the entries of the skills whose boosted score is above 0, in catalog order
Found(catalog, boosted) ==
    LET kept == SelectSeq([i \in 1..Len(catalog) |-> i], LAMBDA i : boosted[i].score > 0)
    IN  AsList([k \in 1..Len(kept) |-> MatchEntry(catalog[kept[k]], boosted[kept[k]])])

\* the loop over the catalog, the sort and the cut, given the scores
RankScored(catalog, lim, sig, query_domains, scores) ==
    [scored |-> scores,
     matches |-> Take(SortMatches(Found(catalog, AllBoosted(catalog, scores, sig, query_domains))),
                      lim)]

\* the same with the domains of the query detected
RankWithDomains(q, catalog, lim, sig, query_domains) ==
    RankScored(catalog, lim, sig, query_domains, AllScores(q, catalog, query_domains))

\* find_matching_skills: `matches` is the list it returns and `scored` the
\* (score, reasons) pair that calculate_match_score(query, skill) returned for
\* each skill of the catalog.  detect_query_domains is a function of the query
\* alone, so the domains detected for the boosts are also the ones each
\* call of calculate_match_score detects.
find_matching_skills(q, catalog, lim, sig) ==
    RankWithDomains(q, catalog, lim, sig, detect_query_domains(q))

-----------------------------------------------------------------------------
(* make_triage_decision *)

\* how an f-string prints an optional name
NameText(name) == IF name = None THEN "None" ELSE name[1]

\* [m["name"] for m in matches[:3]]
TopNames(ms) == AsList([i \in 1..Len(Take(ms, 3)) |-> ms[i].name])

\* "debugging" in [d.lower() for d in m.get("domains", [])]
IsDebugging(m) == "debugging" \in SeqToSet(MapLower(m.domains))

\* the domains of matches[:3]
TopDomains(ms) == UNION {SeqToSet(ms[i].domains) : i \in 1..Len(Take(ms, 3))}

\* a multi-domain test that counts the domains of lists of any length
multi_domain_any_length(ms) == Cardinality(TopDomains(ms)) >= 3

\* multi_domain: three matches or more, whose first three span three domains
multi_domain(ms) == IF Len(ms) >= 3 THEN Cardinality(TopDomains(ms)) >= 3 ELSE FALSE

\* the fields every details map starts from
BaseDetails(cat, ms) ==
    [category |-> cat,
     top_match |-> IF ms # <<>> THEN Some(ms[1]) ELSE None,
     top_score |-> IF ms # <<>> THEN ms[1].score ELSE 0,
     match_count |-> Len(ms),
     multi_domain |-> multi_domain(ms)]

\* {**details, key: value, ...}
With(rec, more) ==
    [k \in DOMAIN rec \cup DOMAIN more |-> IF k \in DOMAIN more THEN more[k] ELSE rec[k]]

\* "<prefix>{m['name']} ({m['score']}%)<suffix>"
MatchText(prefix, m, suffix) ==
    prefix \o NameText(m.name) \o " (" \o IntToStr(m.score) \o "%)" \o suffix

\* "Existing skill '{top_match['name']}' ({top_score}%)<suffix>"
ExistingText(m, suffix) ==
    "Existing skill '" \o NameText(m.name) \o "' (" \o IntToStr(m.score) \o "%)" \o suffix

\* the return statements of make_triage_decision, by the fields they add
Clarify(det, reason, suggested) ==
    <<CLARIFY, With(det, [reason |-> reason, suggested_action |-> suggested])>>

UseExisting(det, reason, names) ==
    <<USE_EXISTING, With(det, [reason |-> reason, recommended_skills |-> names])>>

ImproveExisting(det, reason, target) ==
    <<IMPROVE_EXISTING, With(det, [reason |-> reason, target_skill |-> target])>>

CreateNew(det, reason) == <<CREATE_NEW, With(det, [reason |-> reason])>>

CreateNewFor(det, reason, purpose) ==
    <<CREATE_NEW, With(det, [reason |-> reason, purpose |-> purpose])>>

Compose(det, reason, chain) ==
    <<COMPOSE, With(det, [reason |-> reason, recommended_chain |-> chain])>>

\* a create request that asks only when the top score is above 50
DecideCreateAbove(sig, ms, det) ==
    IF det.top_score > 80
    THEN Clarify(det, ExistingText(ms[1], " may already handle this. Create anyway or use existing?"),
                 "Ask user to clarify if they want to create despite existing skill")
    ELSE IF det.top_score > 50
    THEN Clarify(det, ExistingText(ms[1], " is similar. Create new or improve existing?"),
                 "Ask if user wants new skill or to enhance existing")
    ELSE CreateNewFor(det, "No strong existing match found. Proceeding with skill creation.",
                      sig.extracted_purpose)

\* if category == InputCategory.EXPLICIT_CREATE
DecideCreate(sig, ms, det) ==
    IF det.top_score >= 80
    THEN Clarify(det, ExistingText(ms[1], " may already handle this. Create anyway or use existing?"),
                 "Ask user to clarify if they want to create despite existing skill")
    ELSE IF det.top_score >= 50
    THEN Clarify(det, ExistingText(ms[1], " is similar. Create new or improve existing?"),
                 "Ask if user wants new skill or to enhance existing")
    ELSE CreateNewFor(det, "No strong existing match found. Proceeding with skill creation.",
                      sig.extracted_purpose)

\* the outcome of the loop over the matches, given the test a match is found by
ImproveLoop(sig, ms, det, Holds(_)) ==
    LET skill_name == sig.mentioned_skill_name
        truthy == skill_name # None /\ skill_name[1] # ""
        m == FirstIndex(ms, LAMBDA e : e.name = None \/ Holds(e))
    IN  IF truthy /\ m # 0 /\ ms[m].name = None
        THEN <<AttributeError, None>>
        ELSE IF truthy /\ m # 0
        THEN ImproveExisting(det, "Improving existing skill: " \o NameText(ms[m].name), ms[m].name)
        ELSE Clarify(det, "Could not identify which skill to improve",
                     "Ask user to specify skill name")

\* an improve request that compares the names as they are written
DecideImproveCased(sig, ms, det) ==
    ImproveLoop(sig, ms, det, LAMBDA e : Contains(e.name[1], sig.mentioned_skill_name[1]))

\* if category == InputCategory.EXPLICIT_IMPROVE: the loop stops at the first
\* match whose name holds the mentioned name; a match without a name stops it
\* with an AttributeError (None has no lower())
DecideImprove(sig, ms, det) ==
    ImproveLoop(sig, ms, det,
                LAMBDA e : Contains(Lower(e.name[1]), Lower(sig.mentioned_skill_name[1])))

\* a skill question that recommends from a top score of 70 on
DecideQuestionFrom70(ms, det) ==
    IF det.top_score >= 70
    THEN UseExisting(det, MatchText("Recommending existing skill: ", ms[1], ""), TopNames(ms))
    ELSE CreateNew(det, "No good existing skill matches. Consider creating one.")

\* the question rule with its threshold at 30
DecideQuestionFrom30(ms, det) ==
    IF det.top_score >= 30
    THEN UseExisting(det, MatchText("Recommending existing skill: ", ms[1], ""), TopNames(ms))
    ELSE CreateNew(det, "No good existing skill matches. Consider creating one.")

\* if category == InputCategory.SKILL_QUESTION
DecideQuestion(ms, det) ==
    IF det.top_score >= 60
    THEN UseExisting(det, MatchText("Recommending existing skill: ", ms[1], ""), TopNames(ms))
    ELSE CreateNew(det, "No good existing skill matches. Consider creating one.")

\* an error message handled without the preference for debugging skills
DecideErrorNoPreference(ms, det) ==
    IF det.top_score >= 50
    THEN UseExisting(det, MatchText("Error handling skill: ", ms[1], ""), TopNames(ms))
    ELSE CreateNew(det, "No error handling skill found. Consider creating one.")

\* if category == InputCategory.ERROR_MESSAGE
DecideError(ms, det) ==
    LET debugging_skills == SelectSeq(ms, IsDebugging)
    IN  IF debugging_skills # <<>> /\ debugging_skills[1].score >= 50
        THEN UseExisting(det, MatchText("Error detected - recommending: ", debugging_skills[1], ""),
                         <<debugging_skills[1].name>>)
        ELSE IF det.top_score >= 50
        THEN UseExisting(det, MatchText("Error handling skill: ", ms[1], ""), TopNames(ms))
        ELSE CreateNew(det, "No error handling skill found. Consider creating one.")

\* a task request that looks at a strong match before it looks at composition
DecideTaskStrongFirst(ms, det) ==
    IF det.top_score >= 80
    THEN UseExisting(det, MatchText("Strong match: ", ms[1], ""), TopNames(ms))
    ELSE IF det.multi_domain /\ det.top_score >= 50
    THEN Compose(det, "Multiple domains detected. Suggest skill composition.", TopNames(ms))
    ELSE IF det.top_score >= 50
    THEN ImproveExisting(det, MatchText("Partial match: ", ms[1],
                                        " could be enhanced for this use case"), ms[1].name)
    ELSE CreateNew(det, "No good existing skill handles this. Consider creating one.")

\* if category in [CODE_SNIPPET, URL_CONTENT, TASK_REQUEST]
DecideTask(ms, det) ==
    IF det.multi_domain /\ det.top_score >= 50
    THEN Compose(det, "Multiple domains detected. Suggest skill composition.", TopNames(ms))
    ELSE IF det.top_score >= 80
    THEN UseExisting(det, MatchText("Strong match: ", ms[1], ""), TopNames(ms))
    ELSE IF det.top_score >= 50
    THEN ImproveExisting(det, MatchText("Partial match: ", ms[1],
                                        " could be enhanced for this use case"), ms[1].name)
    ELSE CreateNew(det, "No good existing skill handles this. Consider creating one.")

\* general input that gets the prompt for partial matches above 40 only
DecideGeneralAbove40(ms, det) ==
    IF det.top_score >= 70
    THEN UseExisting(det, MatchText("Best match: ", ms[1], ""), TopNames(ms))
    ELSE IF det.top_score > 40
    THEN Clarify(det, "Unclear intent. Partial matches found.",
                 "Ask user to clarify what they need")
    ELSE Clarify(det, "Unclear intent and no good skill matches",
                 "Ask user to elaborate on their goal")

\* general or unclear input, and every category no rule above names
DecideGeneral(ms, det) ==
    IF det.top_score >= 70
    THEN UseExisting(det, MatchText("Best match: ", ms[1], ""), TopNames(ms))
    ELSE IF det.top_score >= 40
    THEN Clarify(det, "Unclear intent. Partial matches found.",
                 "Ask user to clarify what they need")
    ELSE Clarify(det, "Unclear intent and no good skill matches",
                 "Ask user to elaborate on their goal")

\* a decision table whose last rule is for GENERAL alone: any other category
\* falls off its end, and the call returns None
make_triage_decision_known_only(cat, sig, ms, q) ==
    LET det == BaseDetails(cat, ms)
    IN  IF cat = EXPLICIT_CREATE THEN DecideCreate(sig, ms, det)
        ELSE IF cat = EXPLICIT_IMPROVE THEN DecideImprove(sig, ms, det)
        ELSE IF cat = SKILL_QUESTION THEN DecideQuestion(ms, det)
        ELSE IF cat = ERROR_MESSAGE THEN DecideError(ms, det)
        ELSE IF cat \in {CODE_SNIPPET, URL_CONTENT, TASK_REQUEST} THEN DecideTask(ms, det)
        ELSE IF cat = GENERAL THEN DecideGeneral(ms, det)
        ELSE <<"None", det>>

\* the (action, details) pair make_triage_decision returns
make_triage_decision(cat, sig, ms, q) ==
    LET det == BaseDetails(cat, ms)
    IN  IF cat = EXPLICIT_CREATE THEN DecideCreate(sig, ms, det)
        ELSE IF cat = EXPLICIT_IMPROVE THEN DecideImprove(sig, ms, det)
        ELSE IF cat = SKILL_QUESTION THEN DecideQuestion(ms, det)
        ELSE IF cat = ERROR_MESSAGE THEN DecideError(ms, det)
        ELSE IF cat \in {CODE_SNIPPET, URL_CONTENT, TASK_REQUEST} THEN DecideTask(ms, det)
        ELSE DecideGeneral(ms, det)

-----------------------------------------------------------------------------
(* Sample catalog records and queries *)

PdfExport ==
    [name |-> Some("pdf-export"), source |-> "custom", description |-> "Exports documents to PDF", keywords |-> <<"pdf", "export">>, triggers |-> <<>>, domains |-> <<"pdf">>]

BugHunter ==
    [name |-> Some("Bug-Hunter"), source |-> "superpowers", description |-> "Investigate crashes, errors and stack traces", keywords |-> <<"debug", "error", "crash">>, triggers |-> <<"debug this">>, domains |-> <<"debugging">>]

ApiGuard ==
    [name |-> Some("api-guard"), source |-> "custom", description |-> "Deploy and secure an api", keywords |-> <<"api", "secure", "deploy">>, triggers |-> <<"secure this api">>, domains |-> <<"API", "security", "deployment">>]

Notes ==
    [name |-> Some("notes")]

TraceReader ==
    [name |-> Some("trace-reader"), source |-> "custom", description |-> "Reads stack traces", keywords |-> <<"trace">>, triggers |-> <<>>, domains |-> <<"Debugging", "logs">>]

Nameless ==
    [source |-> "custom", description |-> "Write the docs", keywords |-> <<"docs">>, domains |-> <<"documentation", "code_quality">>]

SkillPool == {PdfExport, BugHunter, ApiGuard, Notes, Nameless}

RankQueries ==
    {"",
     "hello there",
     "export this report as a pdf",
     "use pdf-export to export pdf report",
     "help me deploy and secure this API",
     "TypeError: Cannot read property 'map' of undefined",
     "debug this crash in the api docs",
     "improve the notes skill",
     "Bug-Hunter: debug this crash => error"}

-----------------------------------------------------------------------------
(* Inputs *)

ClassifyFragments ==
    {"create a skill for pdf export. now", "Improve the pdf skill", "which skill",
     "TypeError: x", "const f = a => b", "see https://a.io", "please help me", "hello"}

Separators == {" ", "\n"}

\* the texts made of at most n fragments
RECURSIVE Queries(_, _)
Queries(frags, n) ==
    IF n <= 1 THEN frags
    ELSE frags \cup {q \o sep \o f : q \in Queries(frags, n - 1), sep \in Separators, f \in frags}

ClassifyQueries == {""} \cup Queries(ClassifyFragments, MaxFrags)

NoSignals ==
    [has_skill_mention |-> FALSE, has_error |-> FALSE, has_code |-> FALSE, has_url |-> FALSE,
     mentioned_skill_name |-> None, extracted_purpose |-> None]

\* the catalogs of at most n different records of the pool
Catalogs(n) ==
    {c \in UNION {[1..k -> SkillPool] : k \in 0..n} :
        \A i, j \in 1..Len(c) : i # j => c[i] # c[j]}

\* the limit find_matching_skills is called with: its default, and a small one
DefaultLimit == 5

Limits == {1, DefaultLimit}

\* the context flags find_matching_skills reads
RankSignals ==
    {[NoSignals EXCEPT !.has_error = f[1], !.has_code = f[2], !.has_url = f[3]] :
        f \in {<<FALSE, FALSE, FALSE>>, <<TRUE, FALSE, FALSE>>, <<FALSE, TRUE, FALSE>>,
               <<FALSE, FALSE, TRUE>>, <<TRUE, TRUE, TRUE>>}}

-----------------------------------------------------------------------------
(* The index file *)

\* no file at the index path
NoFile == [exists |-> FALSE]

\* a file whose text json.loads rejects with a JSONDecodeError
NotJson == [exists |-> TRUE, document |-> None]

\* a file holding the JSON text of the value d
JsonFile(d) == [exists |-> TRUE, document |-> Some(d)]

\* the JSON object {}
EmptyObject == [key \in {} |-> None]

\* load_skill_index: None for a file that is missing or is not JSON, the
\* parsed value otherwise
load_skill_index(file) ==
    IF ~file.exists THEN None
    ELSE IF file.document = None THEN None
    ELSE file.document

\* `not index`: None is falsy, and so is a dict without keys
NotIndex(index) == index = None \/ DOMAIN index[1] = {}

\* the Result triage_request returns when `not index`
IndexNotFound ==
    [success |-> FALSE,
     message |-> "Skill index not found. Run discover_skills.py first.",
     data |-> EmptyObject,
     errors |-> <<"Index file missing: ~/.cache/skillrecommender/skill_index.json">>,
     warnings |-> <<>>]

\* the Result triage_request returns after the decision
TriageComplete(act, det, cat, sig, ms, catalog) ==
    [success |-> TRUE,
     message |-> "Triage complete: " \o act,
     data |-> [action |-> act,
               details |-> det,
               input_category |-> cat,
               signals |-> sig,
               top_matches |-> Take(ms, 5),
               total_skills_scanned |-> Len(catalog)],
     errors |-> <<>>,
     warnings |-> <<>>]

\* skill.get("name", "") is None for a record whose name is null, and
\* None.lower() raises AttributeError
NullName(skill) == HasKey(skill, "name") /\ skill.name = None

\* a scan that reads the four optional fields with skill[key]
ScanRaisesOnMissing(catalog) ==
    \E i \in 1..Len(catalog) :
        \E key \in {"keywords", "triggers", "domains", "description"} : ~HasKey(catalog[i], key)

\* the scan of the catalog raises at the first record with a null name
ScanRaises(catalog) == \E i \in 1..Len(catalog) : NullName(catalog[i])

-----------------------------------------------------------------------------
(* The steps of a triage call *)

\* category, signals = classify_input(query)
ClassifyInput ==
    /\ pc = "classify"
    /\ \E classified \in {classify_input(query)} :
          /\ category' = Some(classified[1])
          /\ signals' = classified[2]
    /\ pc' = "load"
    /\ UNCHANGED <<query, skills, limit, scored, matches, action, details, result, shared>>

\* index = load_skill_index(); if not index: return Result(success=False, ..);
\* skills = index.get("skills", [])
LoadSkillIndex ==
    /\ pc = "load"
    /\ \E index \in {load_skill_index(index_file)} :
           IF NotIndex(index)
           THEN /\ result' = Some(IndexNotFound)
                /\ pc' = "failed"
                /\ UNCHANGED skills
           ELSE /\ skills' = GetList(index[1], "skills")
                /\ pc' = "rank"
                /\ UNCHANGED result
    /\ UNCHANGED <<query, limit, category, signals, scored, matches, action, details, shared>>

\* matches = find_matching_skills(query, skills, limit, signals)
FindMatchingSkills ==
    /\ pc = "rank"
    /\ IF ScanRaises(skills)
       THEN /\ pc' = "raised"
            /\ UNCHANGED <<scored, matches>>
       ELSE /\ \E found \in {find_matching_skills(query, skills, limit, signals)} :
                  /\ scored' = found.scored
                  /\ matches' = found.matches
            /\ pc' = "decide"
    /\ UNCHANGED <<query, skills, limit, category, signals, action, details, result, shared>>

\* action, details = make_triage_decision(category, signals, matches, query)
MakeTriageDecision ==
    /\ pc = "decide"
    /\ \E decision \in {make_triage_decision(category[1], signals, matches, query)} :
           IF decision[1] = AttributeError
           THEN /\ pc' = "raised"
                /\ UNCHANGED <<action, details>>
           ELSE /\ pc' = "done"
                /\ action' = Some(decision[1])
                /\ details' = Some(decision[2])
    /\ UNCHANGED <<query, skills, limit, category, signals, scored, matches, result, shared>>

\* return Result(success=True, message=..., data={...})
ReturnResult ==
    /\ pc = "done"
    /\ result' = Some(TriageComplete(action[1], details[1], category[1], signals, matches, skills))
    /\ pc' = "returned"
    /\ UNCHANGED <<query, skills, limit, category, signals, scored, matches, action, details, shared>>

-----------------------------------------------------------------------------
(* classify_input on its own *)

InitClassify ==
    /\ pc = "classify"
    /\ query \in ClassifyQueries
    /\ skills = <<>>
    /\ limit = DefaultLimit
    /\ category = None
    /\ signals = NoSignals
    /\ scored = <<>>
    /\ matches = <<>>
    /\ action = None
    /\ details = None
    /\ index_file = NoFile
    /\ result = None
    /\ vocabulary = DOMAIN_SYNONYMS
    /\ calls = <<>>
    /\ discovered = None
    /\ detection = <<>>
    /\ running = None

NextClassify == ClassifyInput

SpecClassify == InitClassify /\ [][NextClassify]_vars

-----------------------------------------------------------------------------
(* find_matching_skills on its own *)

InitRank ==
    /\ pc = "rank"
    /\ query \in RankQueries
    /\ skills \in Catalogs(MaxCatalog)
    /\ limit \in Limits
    /\ category = None
    /\ signals \in RankSignals
    /\ scored = <<>>
    /\ matches = <<>>
    /\ action = None
    /\ details = None
    /\ index_file = NoFile
    /\ result = None
    /\ vocabulary = DOMAIN_SYNONYMS
    /\ calls = <<>>
    /\ discovered = None
    /\ detection = <<>>
    /\ running = None

NextRank == FindMatchingSkills

SpecRank == InitRank /\ [][NextRank]_vars

-----------------------------------------------------------------------------
(* make_triage_decision on its own *)

\* a category value outside the eight known ones
UnknownCategory == "voice_memo"

DecideScores == {30, 40, 50, 60, 70, 80}

DecidePool == {PdfExport, BugHunter, TraceReader, Notes}

\* the entries a match list is made of: a record of the pool with a score
DecideEntries ==
    {MatchEntry(skill, [score |-> n, reasons |-> <<>>]) : skill \in DecidePool, n \in DecideScores}

\* the ranked match lists: at most n entries of different skills, best first
RankedLists(n) ==
    {ms \in UNION {[1..k -> DecideEntries] : k \in 0..n} :
        /\ \A i, j \in 1..Len(ms) : i # j => ms[i].name # ms[j].name
        /\ \A i \in 1..(Len(ms) - 1) : ms[i].score >= ms[i + 1].score}

\* the (category, signals) pairs classify_input can hand over: the flags go
\* with their categories, a purpose with EXPLICIT_CREATE only and a mentioned
\* name with EXPLICIT_IMPROVE only
DecideInputs ==
    {<<c, [NoSignals EXCEPT !.has_error = (c = ERROR_MESSAGE),
                            !.has_code = (c = CODE_SNIPPET),
                            !.has_url = (c = URL_CONTENT)]>> :
        c \in (InputCategory \cup {UnknownCategory}) \ {EXPLICIT_CREATE, EXPLICIT_IMPROVE}}
    \cup {<<EXPLICIT_CREATE, [NoSignals EXCEPT !.has_skill_mention = TRUE,
                                               !.extracted_purpose = p]>> :
            p \in {None, Some("pdf export")}}
    \cup {<<EXPLICIT_IMPROVE, [NoSignals EXCEPT !.has_skill_mention = TRUE,
                                                !.mentioned_skill_name = m]>> :
            m \in {None, Some("pdf"), Some("hunter"), Some("the")}}

InitDecide ==
    /\ pc = "decide"
    /\ query = ""
    /\ skills = <<>>
    /\ limit = DefaultLimit
    /\ \E input \in DecideInputs :
          /\ category = Some(input[1])
          /\ signals = input[2]
    /\ scored = <<>>
    /\ matches \in RankedLists(MaxMatches)
    /\ action = None
    /\ details = None
    /\ index_file = NoFile
    /\ result = None
    /\ vocabulary = DOMAIN_SYNONYMS
    /\ calls = <<>>
    /\ discovered = None
    /\ detection = <<>>
    /\ running = None

NextDecide == MakeTriageDecision

SpecDecide == InitDecide /\ [][NextDecide]_vars

-----------------------------------------------------------------------------
(* triage_request: the whole call, from the query and the index file *)

MaxIndex == 3

Shipper ==
    [name |-> Some("shipper"), source |-> "custom", description |-> "Ship to production", keywords |-> <<"deploy">>, triggers |-> <<>>, domains |-> <<"deployment", "devops">>]

SecAudit ==
    [name |-> Some("sec-audit"), source |-> "custom", description |-> "Audit for vulnerabilities", keywords |-> <<"secure">>, triggers |-> <<>>, domains |-> <<"security">>]

TestRunner ==
    [name |-> Some("test-runner"), source |-> "custom", description |-> "Runs the unit tests", keywords |-> <<"test", "testing">>, triggers |-> <<>>, domains |-> <<"testing">>]

Checks ==
    [name |-> Some("testing"), source |-> "custom", description |-> "Runs a test", keywords |-> <<"test">>, triggers |-> <<>>, domains |-> <<"qa">>]

QaHelper ==
    [name |-> Some("qa-helper"), source |-> "custom", description |-> "Runs a test", keywords |-> <<"test", "have">>, triggers |-> <<"check my build">>, domains |-> <<"qa">>]

\* a record whose name is the JSON value null
NullNamed ==
    [name |-> None, source |-> "custom", description |-> "Unnamed draft", keywords |-> <<"draft">>, triggers |-> <<>>, domains |-> <<"general">>]

TriagePool ==
    <<ApiGuard, Shipper, SecAudit, TestRunner, Checks, QaHelper, Notes, Nameless, NullNamed>>

\* the records of the pool at the places S, in the order of the pool
RECURSIVE Chosen(_, _)
Chosen(S, from) ==
    IF from > Len(TriagePool) THEN <<>>
    ELSE IF from \in S THEN <<TriagePool[from]>> \o Chosen(S, from + 1)
    ELSE Chosen(S, from + 1)

\* the skills lists of at most n records of the pool
TriageCatalogs(n) ==
    {Chosen(S, 1) : S \in {T \in SUBSET (1..Len(TriagePool)) : Cardinality(T) <= n}}

\* the index files: none, one that is not JSON, the object {}, an index
\* without a skills list, and an index for each skills list
IndexFiles ==
    {NoFile, NotJson, JsonFile(EmptyObject), JsonFile([version |-> "1.0"])}
    \cup {JsonFile([version |-> "1.0", skills |-> c]) : c \in TriageCatalogs(MaxIndex)}

TriageQueries ==
    {"help me deploy and secure this API",
     "do I have a skill for testing?",
     "improve the notes skill",
     "create a skill for pdf export",
     "hello there"}

Init ==
    /\ pc = "classify"
    /\ query \in TriageQueries
    /\ skills = <<>>
    /\ limit = DefaultLimit
    /\ category = None
    /\ signals = NoSignals
    /\ scored = <<>>
    /\ matches = <<>>
    /\ action = None
    /\ details = None
    /\ index_file \in IndexFiles
    /\ result = None
    /\ vocabulary = DOMAIN_SYNONYMS
    /\ calls = <<>>
    /\ discovered = None
    /\ detection = <<>>
    /\ running = None

Next ==
    \/ ClassifyInput
    \/ LoadSkillIndex
    \/ FindMatchingSkills
    \/ MakeTriageDecision
    \/ ReturnResult

Spec == Init /\ [][Next]_vars

-----------------------------------------------------------------------------
(* Properties of classify_input, checked under SpecClassify *)

\* the categories of the seven rule groups, in the order they are tried
GroupOrder ==
    <<EXPLICIT_CREATE, EXPLICIT_IMPROVE, SKILL_QUESTION, ERROR_MESSAGE,
      CODE_SNIPPET, URL_CONTENT, TASK_REQUEST>>

\* for each rule group, in that order, whether one of its patterns is found
\* in the text the group is matched against
GroupHits(q) ==
    LET query_lower == Lower(q)
    IN  << TRUE \in SeqToSet(EXPLICIT_CREATE_PATTERNS(query_lower)),
           TRUE \in SeqToSet(EXPLICIT_IMPROVE_PATTERNS(query_lower)),
           TRUE \in SeqToSet(SKILL_QUESTION_PATTERNS(query_lower)),
           TRUE \in SeqToSet(ERROR_PATTERNS(q)),
           TRUE \in SeqToSet(CODE_PATTERNS(q)),
           TRUE \in SeqToSet(URL_PATTERNS(q)),
           TRUE \in SeqToSet(TASK_REQUEST_PATTERNS(query_lower)) >>

\* the groups, by their place in the order, that have a matching pattern
HitGroups(q) ==
    LET hits == GroupHits(q)
    IN  {k \in 1..Len(GroupOrder) : hits[k]}

Classified == pc = "load" /\ category # None

\* C1: classify_input is total: for every query, the empty one included, it
\* returns exactly one of the 8 input categories, and it returns GENERAL
\* exactly when no pattern of any of the seven rule groups matches.
C1_CategoryTotality ==
    pc = "load" =>
        /\ category # None
        /\ category[1] \in InputCategory
        /\ Cardinality({c \in InputCategory : c = category[1]}) = 1
        /\ (category[1] = GENERAL <=> HitGroups(query) = {})

\* the empty query has been classified, as GENERAL
C1_Witness == Classified /\ query = "" /\ category[1] = GENERAL

\* a query that only a later pattern of its group matches has been classified
C1_WitnessLaterPattern ==
    /\ Classified
    /\ category[1] = CODE_SNIPPET
    /\ ~CODE_PATTERNS(query)[1]

\* C2: the category classify_input returns is that of the earliest rule
\* group, in the order EXPLICIT_CREATE, EXPLICIT_IMPROVE, SKILL_QUESTION,
\* ERROR_MESSAGE, CODE_SNIPPET, URL_CONTENT, TASK_REQUEST, that has a
\* matching pattern; a query several groups match gets the earlier category.
C2_EarliestGroupWins ==
    pc = "load" =>
        LET groups == HitGroups(query)
        IN  groups # {} => category = Some(GroupOrder[Min(groups)])

\* a create phrase together with an error trace or a URL is EXPLICIT_CREATE
C2_Witness ==
    /\ Classified
    /\ GroupHits(query)[1]
    /\ GroupHits(query)[4] \/ GroupHits(query)[6]
    /\ category[1] = EXPLICIT_CREATE

-----------------------------------------------------------------------------
(* Properties of the scores and the ranking, checked under SpecRank *)

Ranked == pc = "decide"

\* C3: the score calculate_match_score returns for a (query, skill) pair is
\* an integer in 0..100, and the score of every entry find_matching_skills
\* returns, after all context boosts, is at most 100.
C3_ScoreBounds ==
    Ranked =>
        /\ \A i \in 1..Len(scored) : scored[i].score \in 0..100
        /\ \A i \in 1..Len(matches) : matches[i].score \in 0..100

\* a pair whose parts add up to more than 100 has been scored, and a boost
\* has been added to a score that had reached 100
C3_Witness ==
    /\ Ranked
    /\ \E i \in 1..Len(skills) :
          /\ ScoreWithDomains(query, skills[i], detect_query_domains(query)).score = 100
          /\ scored[i].score = 100
          /\ BoostedScore(skills[i], scored[i], signals, detect_query_domains(query)).score > 100
    /\ \E i \in 1..Len(matches) : matches[i].score = 100

\* C4: the list find_matching_skills returns is sorted by non-increasing
\* score and has no entry whose score is 0.
C4_RankedOutput ==
    Ranked =>
        /\ \A i \in 1..(Len(matches) - 1) : matches[i].score >= matches[i + 1].score
        /\ \A i \in 1..Len(matches) : matches[i].score > 0

\* two skills have been returned in the reverse of their catalog order, and
\* a skill of the catalog that scored 0 has been left out
C4_Witness ==
    /\ Ranked
    /\ Len(matches) = 2
    /\ matches[1].score > matches[2].score
    /\ \A i \in 1..Len(skills) : HasKey(skills[i], "name")
    /\ matches[1].name = skills[2].name
    /\ matches[2].name = skills[1].name

C4_WitnessDropped ==
    /\ Ranked
    /\ Len(skills) = 2
    /\ Len(matches) = 1
    /\ limit = DefaultLimit
    /\ \E i \in 1..2 : scored[i].score = 0

-----------------------------------------------------------------------------
(* Properties of make_triage_decision, checked under SpecDecide *)

Decided == pc = "done" /\ action # None /\ details # None

\* the score of the best match, 0 for an empty list
TopScore == IF matches = <<>> THEN 0 ELSE matches[1].score

\* the names of the first three matches, in rank order
TopThreeNames ==
    IF Len(matches) = 0 THEN <<>>
    ELSE IF Len(matches) = 1 THEN <<matches[1].name>>
    ELSE IF Len(matches) = 2 THEN <<matches[1].name, matches[2].name>>
    ELSE <<matches[1].name, matches[2].name, matches[3].name>>

HasField(key) == key \in DOMAIN details[1]

C6_PayloadPresent ==
    Decided =>
        /\ action[1] = USE_EXISTING =>
              HasField("recommended_skills") /\ details[1].recommended_skills # <<>>
        /\ action[1] = IMPROVE_EXISTING => HasField("target_skill")
        /\ action[1] = CREATE_NEW => HasField("purpose")
        /\ action[1] = COMPOSE => HasField("recommended_chain")

\* C7: for EXPLICIT_CREATE the action is CLARIFY when top_score >= 50, with
\* one reason for top_score >= 80 and another for 50 <= top_score < 80, and
\* CREATE_NEW otherwise, its details carrying purpose equal to
\* signals.extracted_purpose; with an empty match list the action is
\* CREATE_NEW; USE_EXISTING, IMPROVE_EXISTING and COMPOSE are never returned.
C7_ExplicitCreate ==
    (Decided /\ category[1] = EXPLICIT_CREATE) =>
        /\ TopScore >= 80 =>
              /\ action[1] = CLARIFY
              /\ Contains(details[1].reason, "may already handle this")
              /\ ~Contains(details[1].reason, "is similar")
        /\ (TopScore >= 50 /\ TopScore < 80) =>
              /\ action[1] = CLARIFY
              /\ Contains(details[1].reason, "is similar")
              /\ ~Contains(details[1].reason, "may already handle this")
        /\ TopScore < 50 =>
              /\ action[1] = CREATE_NEW
              /\ HasField("purpose")
              /\ details[1].purpose = signals.extracted_purpose
        /\ matches = <<>> => action[1] = CREATE_NEW
        /\ action[1] \notin {USE_EXISTING, IMPROVE_EXISTING, COMPOSE}

\* a create request whose best match scores exactly 50 has been answered
\* with the question about the similar skill
C7_Witness ==
    /\ Decided
    /\ category[1] = EXPLICIT_CREATE
    /\ TopScore = 50
    /\ action[1] = CLARIFY
    /\ Contains(details[1].reason, "is similar")

\* a create request with weak matches has been answered with CREATE_NEW and
\* the purpose taken from the signals
C7_WitnessCreate ==
    /\ Decided
    /\ category[1] = EXPLICIT_CREATE
    /\ matches # <<>>
    /\ action[1] = CREATE_NEW
    /\ details[1].purpose = Some("pdf export")

\* the ranks of the matches whose name contains the mentioned skill name,
\* both taken in lower case
NameHits ==
    IF signals.mentioned_skill_name = None THEN {}
    ELSE {i \in 1..Len(matches) :
             Contains(Lower(matches[i].name[1]), Lower(signals.mentioned_skill_name[1]))}

StrongDebugging ==
    {i \in 1..Len(matches) :
        /\ \E d \in SeqToSet(matches[i].domains) : Lower(d) = "debugging"
        /\ matches[i].score >= 50}

\* C9: for ERROR_MESSAGE, if a match has domain "debugging" and score >= 50
\* the action is USE_EXISTING and recommended_skills names that match, the
\* highest-scored such one, even when another match ranks above it;
\* otherwise if top_score >= 50 the action is USE_EXISTING naming the top 3
\* matches; otherwise the action is CREATE_NEW.
C9_ErrorMessage ==
    (Decided /\ category[1] = ERROR_MESSAGE) =>
        IF StrongDebugging # {}
        THEN /\ action[1] = USE_EXISTING
             /\ details[1].recommended_skills = <<matches[Min(StrongDebugging)].name>>
             /\ \A i \in StrongDebugging :
                   matches[Min(StrongDebugging)].score >= matches[i].score
        ELSE IF TopScore >= 50
        THEN /\ action[1] = USE_EXISTING
             /\ details[1].recommended_skills = TopThreeNames
        ELSE action[1] = CREATE_NEW

\* a debugging match has been recommended over a better match that is none
C9_Witness ==
    /\ Decided
    /\ category[1] = ERROR_MESSAGE
    /\ Min(StrongDebugging \cup {Len(matches) + 1}) \in 2..Len(matches)
    /\ matches[1].score > matches[Min(StrongDebugging \cup {Len(matches) + 1})].score
    /\ action[1] = USE_EXISTING
    /\ Len(details[1].recommended_skills) = 1
    /\ details[1].recommended_skills[1] # matches[1].name

\* C10: for CODE_SNIPPET, URL_CONTENT and TASK_REQUEST the rules are taken
\* in this order: multi_domain and top_score >= 50 gives COMPOSE with
\* recommended_chain the names of the top 3 matches in rank order, also when
\* top_score >= 80; else top_score >= 80 gives USE_EXISTING; else
\* top_score >= 50 gives IMPROVE_EXISTING with target_skill the top match;
\* else CREATE_NEW.
C10_TaskRules ==
    (Decided /\ category[1] \in {CODE_SNIPPET, URL_CONTENT, TASK_REQUEST}) =>
        IF details[1].multi_domain /\ TopScore >= 50
        THEN /\ action[1] = COMPOSE
             /\ details[1].recommended_chain = TopThreeNames
        ELSE IF TopScore >= 80
        THEN action[1] = USE_EXISTING
        ELSE IF TopScore >= 50
        THEN /\ action[1] = IMPROVE_EXISTING
             /\ details[1].target_skill = matches[1].name
        ELSE action[1] = CREATE_NEW

\* a request whose best match scores 80 and whose matches span three
\* domains has been answered with COMPOSE
C10_Witness ==
    /\ Decided
    /\ category[1] \in {CODE_SNIPPET, URL_CONTENT, TASK_REQUEST}
    /\ details[1].multi_domain
    /\ TopScore >= 80
    /\ action[1] = COMPOSE
    /\ Len(details[1].recommended_chain) = 3

\* C11: for SKILL_QUESTION the action is USE_EXISTING, with
\* recommended_skills the names of the first (at most 3) ranked matches,
\* exactly when top_score >= 60, and CREATE_NEW in every other case, the
\* empty match list included.
C11_SkillQuestion ==
    (Decided /\ category[1] = SKILL_QUESTION) =>
        /\ action[1] = USE_EXISTING <=> TopScore >= 60
        /\ TopScore >= 60 => details[1].recommended_skills = TopThreeNames
        /\ TopScore < 60 => action[1] = CREATE_NEW
        /\ matches = <<>> => action[1] = CREATE_NEW

\* a skill question whose best match scores exactly 60 has been answered
\* with the names of its matches
C11_Witness ==
    /\ Decided
    /\ category[1] = SKILL_QUESTION
    /\ TopScore = 60
    /\ Len(matches) >= 2
    /\ action[1] = USE_EXISTING
    /\ details[1].recommended_skills = TopThreeNames

\* C12: for GENERAL, and any category no other rule covers, the action is
\* USE_EXISTING when top_score >= 70 and CLARIFY when top_score < 70, with
\* one prompt for 40 <= top_score < 70 and a generic elaborate prompt below
\* 40; CREATE_NEW, IMPROVE_EXISTING and COMPOSE are never returned.
C12_GeneralRules ==
    (Decided /\ category[1] \in {GENERAL, UnknownCategory}) =>
        /\ action[1] = USE_EXISTING <=> TopScore >= 70
        /\ TopScore < 70 => action[1] = CLARIFY
        /\ (TopScore >= 40 /\ TopScore < 70) =>
              details[1].suggested_action = "Ask user to clarify what they need"
        /\ TopScore < 40 =>
              details[1].suggested_action = "Ask user to elaborate on their goal"
        /\ action[1] \notin {CREATE_NEW, IMPROVE_EXISTING, COMPOSE}

\* a general request whose best match scores exactly 40 has been answered
\* with the prompt for partial matches
C12_Witness ==
    /\ Decided
    /\ category[1] = GENERAL
    /\ TopScore = 40
    /\ action[1] = CLARIFY
    /\ details[1].suggested_action = "Ask user to clarify what they need"

\* the domain names of the first three matches
FirstThreeDomains == UNION {SeqToSet(matches[i].domains) : i \in 1..3 \cap 1..Len(matches)}

\* C13: multi_domain is true if and only if the match list has at least 3
\* entries and the union of the domain sets of its first 3 entries has at
\* least 3 distinct domain names; with fewer than 3 matches multi_domain is
\* false and COMPOSE is never returned, however many domains those matches
\* span; every COMPOSE result has a recommended_chain of exactly 3 names.
C13_MultiDomain ==
    Decided =>
        /\ details[1].multi_domain <=>
              (Len(matches) >= 3 /\ Cardinality(FirstThreeDomains) >= 3)
        /\ Len(matches) < 3 => (~details[1].multi_domain /\ action[1] # COMPOSE)
        /\ action[1] = COMPOSE => Len(details[1].recommended_chain) = 3

\* two matches that span three domains have been decided for a task request
\* with a top score of 50 or more, and not with COMPOSE
C13_Witness ==
    /\ Decided
    /\ category[1] = TASK_REQUEST
    /\ Len(matches) = 2
    /\ Cardinality(FirstThreeDomains) >= 3
    /\ TopScore >= 50
    /\ ~details[1].multi_domain
    /\ action[1] = IMPROVE_EXISTING

\* three matches that span three domains have been answered with COMPOSE
C13_WitnessCompose ==
    /\ Decided
    /\ Len(matches) = 3
    /\ Cardinality(FirstThreeDomains) = 3
    /\ details[1].multi_domain
    /\ action[1] = COMPOSE

-----------------------------------------------------------------------------
(* discover_skills.py: the domains the catalog builder attaches *)

\* the dictionary DOMAIN_KEYWORDS, in its order
DOMAIN_KEYWORDS ==
    << <<"spreadsheet", <<"excel", "xlsx", "xls", "csv", "spreadsheet", "workbook", "tabular">>>>,
       <<"document", <<"word", "docx", "doc", "document", "report", "write">>>>,
       <<"presentation", <<"powerpoint", "pptx", "slides", "presentation", "deck", "keynote">>>>,
       <<"pdf", <<"pdf", "portable document">>>>,
       <<"debugging", <<"debug", "error", "trace", "exception", "stack trace", "fix bug", "investigate", "root cause">>>>,
       <<"testing", <<"test", "tdd", "coverage", "e2e", "unit", "integration", "cypress", "jest", "pytest", "spec">>>>,
       <<"security", <<"security", "owasp", "vulnerability", "audit", "pentest", "xss", "injection">>>>,
       <<"code_quality", <<"review", "refactor", "lint", "code smell", "solid", "pr review", "code review">>>>,
       <<"database", <<"database", "db", "sql", "postgres", "mysql", "mongodb", "migration", "schema", "orm">>>>,
       <<"api", <<"api", "rest", "graphql", "openapi", "endpoint", "swagger", "http">>>>,
       <<"frontend", <<"ui", "ux", "frontend", "react", "vue", "angular", "component", "css", "styling">>>>,
       <<"accessibility", <<"accessibility", "a11y", "wcag", "screen reader", "aria">>>>,
       <<"performance", <<"performance", "optimize", "slow", "speed", "cache", "profiling", "bottleneck">>>>,
       <<"authentication", <<"auth", "login", "authentication", "oauth", "jwt", "session", "password">>>>,
       <<"deployment", <<"deploy", "release", "ship", "hosting", "production">>>>,
       <<"devops", <<"ci", "cd", "docker", "kubernetes", "k8s", "container", "helm", "terraform", "pipeline">>>>,
       <<"documentation", <<"documentation", "docs", "readme", "changelog", "jsdoc">>>>,
       <<"architecture", <<"architecture", "system design", "microservices", "monolith", "pattern">>>>,
       <<"workflow", <<"flowchart", "diagram", "workflow", "process", "swimlane", "sequence">>>>,
       <<"ai_ml", <<"ai", "ml", "llm", "rag", "langchain", "prompt", "embedding", "model">>>>,
       <<"visual", <<"visual", "image", "graphic", "art", "canvas", "brand">>>>,
       <<"meta", <<"orchestrate", "compose", "skill", "maker", "proactive", "chain">>>> >>

\* the number of keywords of a domain that are in the keyword list or in the
\* content
DomainHits(domain_keywords, keywords, content_lower) ==
    Cardinality({k \in 1..Len(domain_keywords) :
                    \/ domain_keywords[k] \in SeqToSet(keywords)
                    \/ Contains(content_lower, domain_keywords[k])})

\* the domains with a score of 2 or more, in the order of the dictionary
ScoredDomains(keywords, content_lower) ==
    SelectSeq([d \in 1..Len(DOMAIN_KEYWORDS) |-> DOMAIN_KEYWORDS[d]],
              LAMBDA entry : DomainHits(entry[2], keywords, content_lower) >= 2)

\* the names of a list of dictionary entries
DomainNames(entries) == AsList([d \in 1..Len(entries) |-> entries[d][1]])

\* a skill without any domain gets "general"
OrGeneral(domains) == IF domains = <<>> THEN <<"general">> ELSE domains

classify_domain(keywords, content) ==
    OrGeneral(DomainNames(ScoredDomains(keywords, Lower(content))))

\* domains = classify_domain(keywords, content), in parse_skill_file
ClassifyDomain ==
    /\ pc = "discover"
    /\ discovered' = Some([discovered[1] EXCEPT
                              !.domains = classify_domain(discovered[1].keywords,
                                                          discovered[1].content)])
    /\ pc' = "discovered"
    /\ UNCHANGED <<query, skills, limit, category, signals, scored, matches, action, details,
                   index_file, result, vocabulary, calls, detection, running>>

MaxKeywords == 2

KeywordPool == {"excel", "csv", "deploy", "skill", "chain", "notes"}

\* the keyword lists of a skill file: at most n words of the pool
KeywordLists(n) == {ks \in UNION {[1..k -> KeywordPool] : k \in 0..n} :
                       \A i, j \in 1..Len(ks) : i < j => ks[i] # ks[j]}

Contents ==
    {"", "Take meeting notes", "Deploy to production and ship it",
     "Compose a skill chain", "Review the API: REST endpoint lint"}

InitDiscover ==
    /\ pc = "discover"
    /\ query = ""
    /\ skills = <<>>
    /\ limit = DefaultLimit
    /\ category = None
    /\ signals = NoSignals
    /\ scored = <<>>
    /\ matches = <<>>
    /\ action = None
    /\ details = None
    /\ index_file = NoFile
    /\ result = None
    /\ vocabulary = DOMAIN_SYNONYMS
    /\ calls = <<>>
    /\ \E ks \in KeywordLists(MaxKeywords), c \in Contents :
          discovered = Some([keywords |-> ks, content |-> c, domains |-> <<>>])
    /\ detection = <<>>
    /\ running = None

NextDiscover == ClassifyDomain

SpecDiscover == InitDiscover /\ [][NextDiscover]_vars

-----------------------------------------------------------------------------
(* Several callers of the triage on one loaded catalog *)

Callers == {"a", "b"}

MaxRounds == 2

\* detect_query_domains as it reads the dictionary object of the module
MatchedTermsIn(vocab, query_lower) ==
    AsList([i \in 1..Len(vocab) |->
               SelectSeq(vocab[i][2], LAMBDA term : Contains(query_lower, term))])

DetectedIn(vocab, matched) ==
    LET hit == SelectSeq([i \in 1..Len(vocab) |-> i], LAMBDA i : matched[i] # <<>>)
    IN  AsList([k \in 1..Len(hit) |-> <<vocab[hit[k]][1], matched[hit[k]]>>])

DetectIn(vocab, q) == ByMatchCount(DetectedIn(vocab, MatchedTermsIn(vocab, Lower(q))))

\* one list for all callers, as a list kept at module level would be
SharedList(c) == "a"

\* matches = []: the list a call appends to is a local of that call
OwnList(c) == c

\* if score > 0: matches.append({...})
ScanStep(found, skill, boosted) ==
    IF boosted.score > 0 THEN Append(found, MatchEntry(skill, boosted)) ELSE found

\* the locals of a call that has not started
NewCall(q, round) ==
    [pc |-> "classify", round |-> round, query |-> q, category |-> None, signals |-> NoSignals,
     query_domains |-> <<>>, next |-> 1, found |-> <<>>, matches |-> <<>>, action |-> None]

CallQueries == {"help me deploy and secure this API", "do I have a skill for testing?"}

CallCatalogs == {<<ApiGuard, TestRunner, Checks>>, <<Shipper, SecAudit>>, <<Notes>>}

\* what the steps of a caller leave alone
notCalls ==
    <<pc, query, skills, limit, category, signals, scored, matches, action, details,
      index_file, result, vocabulary, discovered, detection, running>>

\* category, signals = classify_input(query)
CallClassify(c) ==
    /\ calls[c].pc = "classify"
    /\ \E classified \in {classify_input(calls[c].query)} :
          calls' = [calls EXCEPT ![c].category = Some(classified[1]),
                                 ![c].signals = classified[2],
                                 ![c].pc = "detect"]
    /\ UNCHANGED notCalls

\* matches = []; query_domains = detect_query_domains(query)
CallDetect(c) ==
    /\ calls[c].pc = "detect"
    /\ calls' = [calls EXCEPT ![OwnList(c)].found = <<>>,
                              ![c].query_domains = DetectIn(vocabulary, calls[c].query),
                              ![c].next = 1,
                              ![c].pc = "scan"]
    /\ UNCHANGED notCalls

\* one turn of `for skill in skills`
CallScan(c) ==
    /\ calls[c].pc = "scan"
    /\ calls[c].next <= Len(skills)
    /\ \E base \in {ScoreWithDomains(calls[c].query, skills[calls[c].next],
                                      DetectIn(vocabulary, calls[c].query))} :
          \E boosted \in {BoostedScore(skills[calls[c].next], base, calls[c].signals,
                                        calls[c].query_domains)} :
              calls' = [calls EXCEPT
                          ![OwnList(c)].found = ScanStep(@, skills[calls[c].next], boosted),
                          ![c].next = @ + 1]
    /\ UNCHANGED notCalls

\* matches.sort(...); return matches[:limit]
CallSort(c) ==
    /\ calls[c].pc = "scan"
    /\ calls[c].next > Len(skills)
    /\ calls' = [calls EXCEPT
                    ![c].matches = Take(SortMatches(calls[OwnList(c)].found), DefaultLimit),
                    ![c].pc = "decide"]
    /\ UNCHANGED notCalls

\* action, details = make_triage_decision(category, signals, matches, query)
CallDecide(c) ==
    /\ calls[c].pc = "decide"
    /\ \E decision \in {make_triage_decision(calls[c].category[1], calls[c].signals,
                                              calls[c].matches, calls[c].query)} :
          calls' = [calls EXCEPT ![c].action = Some(decision[1]), ![c].pc = "done"]
    /\ UNCHANGED notCalls

\* the caller calls again, with any query
CallAgain(c) ==
    /\ calls[c].pc = "done"
    /\ calls[c].round < MaxRounds
    /\ \E q \in CallQueries : calls' = [calls EXCEPT ![c] = NewCall(q, calls[c].round + 1)]
    /\ UNCHANGED notCalls

InitCalls ==
    /\ pc = "calls"
    /\ query = ""
    /\ \E c \in CallCatalogs :
          /\ index_file = JsonFile([skills |-> c])
          /\ skills = c
    /\ limit = DefaultLimit
    /\ category = None
    /\ signals = NoSignals
    /\ scored = <<>>
    /\ matches = <<>>
    /\ action = None
    /\ details = None
    /\ result = None
    /\ vocabulary = DOMAIN_SYNONYMS
    /\ calls \in [Callers -> {NewCall(q, 1) : q \in CallQueries}]
    /\ discovered = None
    /\ detection = <<>>
    /\ running = None

NextCalls ==
    \E c \in Callers :
        \/ CallClassify(c)
        \/ CallDetect(c)
        \/ CallScan(c)
        \/ CallSort(c)
        \/ CallDecide(c)
        \/ CallAgain(c)

SpecCalls == InitCalls /\ [][NextCalls]_vars

-----------------------------------------------------------------------------
(* detect_query_domains on its own *)

MaxParts == 2

DetectFragments ==
    {"run the unit test", "Pytest coverage", "DEBUG this Crash", "export pdf",
     "deploy the api", "hello", "a spreadsheet", "traceback"}

DetectQueries == {""} \cup Queries(DetectFragments, MaxParts)

\* detect_query_domains(query)
DetectQueryDomains ==
    /\ pc = "detect"
    /\ detection' = detect_query_domains(query)
    /\ pc' = "detected"
    /\ UNCHANGED <<query, skills, limit, category, signals, scored, matches, action, details,
                   index_file, result, vocabulary, calls, discovered, running>>

InitDetect ==
    /\ pc = "detect"
    /\ query \in DetectQueries
    /\ skills = <<>>
    /\ limit = DefaultLimit
    /\ category = None
    /\ signals = NoSignals
    /\ scored = <<>>
    /\ matches = <<>>
    /\ action = None
    /\ details = None
    /\ index_file = NoFile
    /\ result = None
    /\ vocabulary = DOMAIN_SYNONYMS
    /\ calls = <<>>
    /\ discovered = None
    /\ detection = <<>>
    /\ running = None

NextDetect == DetectQueryDomains

SpecDetect == InitDetect /\ [][NextDetect]_vars

-----------------------------------------------------------------------------
(* triage_request on texts with an error, code or a URL in them, and on
   requests to improve a skill *)

Linter ==
    [name |-> Some("linter"), source |-> "custom", description |-> "Reviews code", keywords |-> <<"lint">>, triggers |-> <<>>, domains |-> <<"code_quality">>]

ContextQueries ==
    {"TypeError: x",
     "const f = a => b",
     "see https://a.io",
     "TypeError: x\nsee https://a.io",
     "const f = a => b at https://a.io",
     "Improve the notes skill\nTypeError: x",
     "do I have a skill for https://a.io",
     "improve the hunter skill",
     "improve the note skill",
     "hello"}

ContextCatalogs ==
    {<<>>, <<BugHunter, ApiGuard>>, <<Linter, BugHunter>>, <<ApiGuard, Linter>>, <<Notes, BugHunter>>}

InitContext ==
    /\ pc = "classify"
    /\ query \in ContextQueries
    /\ skills = <<>>
    /\ limit = DefaultLimit
    /\ category = None
    /\ signals = NoSignals
    /\ scored = <<>>
    /\ matches = <<>>
    /\ action = None
    /\ details = None
    /\ index_file \in {NoFile} \cup {JsonFile([version |-> "1.0", skills |-> c]) : c \in ContextCatalogs}
    /\ result = None
    /\ vocabulary = DOMAIN_SYNONYMS
    /\ calls = <<>>
    /\ discovered = None
    /\ detection = <<>>
    /\ running = None

SpecContext == InitContext /\ [][Next]_vars

-----------------------------------------------------------------------------
(* classify_input on requests to improve a skill *)

ImproveVerbs == {"improve", "enhance", "update", "upgrade", "fix", "extend"}

\* "<verb> [the] X skill" and "<verb> the skill", with and without a lead-in
ImproveRequests ==
    {[x |-> x, text |-> lead \o verb \o " " \o article \o x \o (IF x = "" THEN "" ELSE " ") \o "skill"] :
        lead \in {"", "Please "}, verb \in ImproveVerbs, article \in {"", "the "},
        x \in {"", "pdf", "api", "bug-hunter"}}

InitImprove ==
    /\ pc = "classify"
    /\ \E r \in ImproveRequests : query = r.text
    /\ skills = <<>>
    /\ limit = DefaultLimit
    /\ category = None
    /\ signals = NoSignals
    /\ scored = <<>>
    /\ matches = <<>>
    /\ action = None
    /\ details = None
    /\ index_file = NoFile
    /\ result = None
    /\ vocabulary = DOMAIN_SYNONYMS
    /\ calls = <<>>
    /\ discovered = None
    /\ detection = <<>>
    /\ running = None

SpecImprove == InitImprove /\ [][NextClassify]_vars

-----------------------------------------------------------------------------
(* One turn of the loop of find_matching_skills, step by step: the steps of
   calculate_match_score on one record, then the boosts and the append *)

EmptyTrigger ==
    [name |-> Some("zeta"), source |-> "custom", description |-> "", keywords |-> <<>>, triggers |-> <<"">>, domains |-> <<>>]

EmptyName ==
    [name |-> Some(""), source |-> "custom", description |-> "", keywords |-> <<>>, triggers |-> <<>>, domains |-> <<>>]

Unrelated ==
    [name |-> Some("zeta"), source |-> "custom", description |-> "Plays chess", keywords |-> <<"chess">>, triggers |-> <<"play chess">>, domains |-> <<"games">>]

ScorePool ==
    {ApiGuard, BugHunter, PdfExport, TestRunner, Nameless, EmptyTrigger, EmptyName, Unrelated}

ScoreQueries ==
    {"help me deploy and secure this API",
     "debug this crash in the api docs",
     "Bug-Hunter: debug this crash => error",
     "do I have a skill for testing?",
     "export this report as a pdf",
     "hello there"}

\* the record of the turn
TheSkill == skills[1]

\* what the steps of the turn leave alone
notTurn ==
    <<query, skills, limit, category, signals, action, details,
      index_file, result, vocabulary, calls, discovered, detection>>

\* Step 2
ScoreDomain ==
    /\ pc = "domain"
    /\ running' = Some(DomainStep(running[1], SkillFields(TheSkill), detect_query_domains(query)))
    /\ pc' = "keyword"
    /\ UNCHANGED <<scored, matches, notTurn>>

\* Step 3, keywords
ScoreKeyword ==
    /\ pc = "keyword"
    /\ running' = Some(KeywordStep(running[1], SkillFields(TheSkill), detect_query_domains(query)))
    /\ pc' = "description"
    /\ UNCHANGED <<scored, matches, notTurn>>

\* Step 3, description
ScoreDescription ==
    /\ pc = "description"
    /\ running' = Some(DescriptionStep(running[1], SkillFields(TheSkill),
                                       detect_query_domains(query)))
    /\ pc' = "name"
    /\ UNCHANGED <<scored, matches, notTurn>>

\* Step 4
ScoreName ==
    /\ pc = "name"
    /\ running' = Some(NameStep(running[1], Lower(query), Split(Lower(query)),
                                SkillFields(TheSkill)))
    /\ pc' = "trigger"
    /\ UNCHANGED <<scored, matches, notTurn>>

\* Step 5
ScoreTrigger ==
    /\ pc = "trigger"
    /\ running' = Some(TriggerStep(running[1], Lower(query), SkillFields(TheSkill)))
    /\ pc' = "overlap"
    /\ UNCHANGED <<scored, matches, notTurn>>

\* Step 6
ScoreOverlap ==
    /\ pc = "overlap"
    /\ running' = Some(OverlapStep(running[1],
                                   SignificantOverlap(Split(Lower(query)), SkillFields(TheSkill))))
    /\ pc' = "fallback"
    /\ UNCHANGED <<scored, matches, notTurn>>

\* Step 7
ScoreFallback ==
    /\ pc = "fallback"
    /\ running' = Some(FallbackStep(running[1], Split(Lower(query)), SkillFields(TheSkill)))
    /\ pc' = "return"
    /\ UNCHANGED <<scored, matches, notTurn>>

\* score, reasons = calculate_match_score(query, skill)
ScoreReturn ==
    /\ pc = "return"
    /\ running' = Some(Returned(running[1]))
    /\ scored' = <<Returned(running[1])>>
    /\ pc' = "error boost"
    /\ UNCHANGED <<matches, notTurn>>

BoostError ==
    /\ pc = "error boost"
    /\ running' = Some(ErrorBoost(running[1], signals,
                                  SeqToSet(MapLower(GetList(TheSkill, "domains")))))
    /\ pc' = "code boost"
    /\ UNCHANGED <<scored, matches, notTurn>>

BoostCode ==
    /\ pc = "code boost"
    /\ running' = Some(CodeBoost(running[1], signals,
                                 SeqToSet(MapLower(GetList(TheSkill, "domains")))))
    /\ pc' = "url boost"
    /\ UNCHANGED <<scored, matches, notTurn>>

BoostUrl ==
    /\ pc = "url boost"
    /\ running' = Some(UrlBoost(running[1], signals,
                                SeqToSet(MapLower(GetList(TheSkill, "domains")))))
    /\ pc' = "alignment boost"
    /\ UNCHANGED <<scored, matches, notTurn>>

\* the domains of the skill among the detected domains of the query
MatchingDomains ==
    SeqToSet(MapLower(GetList(TheSkill, "domains")))
    \cap {e[1] : e \in SeqToSet(detect_query_domains(query))}

BoostAlignment ==
    /\ pc = "alignment boost"
    /\ running' = Some(AlignmentBoost(running[1], MatchingDomains))
    /\ pc' = "append"
    /\ UNCHANGED <<scored, matches, notTurn>>

\* if score > 0: matches.append({...})
AppendEntry ==
    /\ pc = "append"
    /\ matches' = ScanStep(matches, TheSkill, running[1])
    /\ pc' = "next"
    /\ UNCHANGED <<scored, running, notTurn>>

InitScore ==
    /\ pc = "domain"
    /\ query \in ScoreQueries
    /\ \E skill \in ScorePool : skills = <<skill>>
    /\ limit = DefaultLimit
    /\ category = None
    /\ signals \in RankSignals
    /\ scored = <<>>
    /\ matches = <<>>
    /\ action = None
    /\ details = None
    /\ index_file = NoFile
    /\ result = None
    /\ vocabulary = DOMAIN_SYNONYMS
    /\ calls = <<>>
    /\ discovered = None
    /\ detection = <<>>
    /\ running = Some([score |-> 0, reasons |-> <<>>])

NextScore ==
    \/ ScoreDomain
    \/ ScoreKeyword
    \/ ScoreDescription
    \/ ScoreName
    \/ ScoreTrigger
    \/ ScoreOverlap
    \/ ScoreFallback
    \/ ScoreReturn
    \/ BoostError
    \/ BoostCode
    \/ BoostUrl
    \/ BoostAlignment
    \/ AppendEntry

SpecScore == InitScore /\ [][NextScore]_vars

-----------------------------------------------------------------------------
(* Properties of triage_request, checked under Spec *)

\* the call has returned a successful Result
TriageReturned == pc = "returned" /\ result # None

\* the domain names of the records of the catalog, as written
CatalogDomains == UNION {SeqToSet(GetList(skills[i], "domains")) : i \in 1..Len(skills)}

\* C14: triage of "help me deploy and secure this API" against a catalog of
\* 3 skills whose domains span 4 distinct names and that all score 50 or
\* more classifies the query as TASK_REQUEST, computes multi_domain = true
\* and returns COMPOSE with a recommended_chain of 3 names.
C14_DeployAndSecure ==
    (/\ TriageReturned
     /\ query = "help me deploy and secure this API"
     /\ Len(skills) = 3
     /\ Cardinality(CatalogDomains) >= 4
     /\ Len(matches) = 3
     /\ \A i \in 1..3 : matches[i].score >= 50 /\ scored[i].score >= 50)
    => /\ result[1].data.input_category = TASK_REQUEST
       /\ result[1].data.details.multi_domain
       /\ result[1].data.action = COMPOSE
       /\ HasKey(result[1].data.details, "recommended_chain")
       /\ Len(result[1].data.details.recommended_chain) = 3

TestingQuestion == "do I have a skill for testing?"

\* no record of the catalog carries the domain tag "testing"
NoTestingTag ==
    \A i \in 1..Len(skills) : "testing" \notin SeqToSet(GetList(skills[i], "domains"))

\* C15 as stated: triage of "do I have a skill for testing?" against any
\* catalog in which no skill is tagged with the domain "testing" classifies
\* the query as SKILL_QUESTION, yields top_score < 60 and returns CREATE_NEW.
C15_NoTestingTag ==
    (TriageReturned /\ query = TestingQuestion /\ NoTestingTag)
    => /\ result[1].data.input_category = SKILL_QUESTION
       /\ result[1].data.details.top_score < 60
       /\ result[1].data.action = CREATE_NEW

\* the record is found by neither its domains (compared in lower case), its
\* name, a word of its name, nor one of its trigger phrases
FoundByNothing(q, skill) ==
    LET sk == SkillFields(skill)
    IN  /\ "testing" \notin sk.domains
        /\ ~Contains(Lower(q), sk.name)
        /\ \A w \in SeqToSet(NameOverlap(Split(Lower(q)), sk)) : Len(w) <= 3
        /\ \A t \in 1..Len(sk.triggers) : ~Contains(Lower(q), sk.triggers[t])

\* C15, amended: triage of "do I have a skill for testing?" against any
\* catalog in which no skill is tagged with the domain "testing" and no
\* skill's name, word of its name or trigger phrase occurs in the query
\* classifies the query as SKILL_QUESTION, yields top_score < 60 and returns
\* CREATE_NEW.  (Keywords and description alone add at most 45.)
C15_NoTestingTagNameOrTrigger ==
    (/\ TriageReturned
     /\ query = TestingQuestion
     /\ \A i \in 1..Len(skills) : FoundByNothing(query, skills[i]))
    => /\ result[1].data.input_category = SKILL_QUESTION
       /\ result[1].data.details.top_score < 60
       /\ result[1].data.action = CREATE_NEW

\* the question has been answered with CREATE_NEW against a catalog with a
\* record that its keywords and description give a score above 0
C15_Witness ==
    /\ TriageReturned
    /\ query = TestingQuestion
    /\ \A i \in 1..Len(skills) : FoundByNothing(query, skills[i])
    /\ matches # <<>>
    /\ TopScore > 0
    /\ result[1].data.action = CREATE_NEW

\* the index file exists and json.loads accepts its text
IndexParsed == index_file.exists /\ index_file.document # None

\* C16: triage_request returns a failure result (success = false, a
\* message, no action and no matches in data, no ranking or decision made)
\* exactly when the index is missing or cannot be parsed; for every index
\* that was parsed, one whose skills list is empty or absent included, a call
\* that returns returns a successful result carrying an action.
C16_FailureIffNoIndex ==
    /\ pc = "failed" =>
          /\ ~IndexParsed
          /\ result # None
          /\ ~result[1].success
          /\ result[1].message # ""
          /\ ~HasKey(result[1].data, "action")
          /\ ~HasKey(result[1].data, "top_matches")
          /\ scored = <<>> /\ matches = <<>> /\ action = None /\ details = None
    /\ pc = "returned" =>
          /\ IndexParsed
          /\ result[1].success
          /\ result[1].data.action \in Action
    /\ (pc \notin {"classify", "load"} /\ ~IndexParsed) => pc = "failed"

-----------------------------------------------------------------------------
(* Missing fields of a record, checked under SpecRank *)

OptionalLists == {"keywords", "triggers", "domains"}

\* the record lacks one of the four optional fields
Lacks(skill) == \E key \in OptionalLists \cup {"description"} : ~HasKey(skill, key)

\* the record with every missing list written as [] and a missing
\* description written as ""
Filled(skill) ==
    [key \in DOMAIN skill \cup OptionalLists \cup {"description"} |->
        IF HasKey(skill, key) THEN skill[key]
        ELSE IF key = "description" THEN "" ELSE <<>>]

FilledCatalog == AsList([i \in 1..Len(skills) |-> Filled(skills[i])])

\* the list without its i-th element
Without(seq, i) == SubSeq(seq, 1, i - 1) \o SubSeq(seq, i + 1, Len(seq))

\* the entries of the match list that are not the entry of the record
NotOf(ms, skill) ==
    SelectSeq(ms, LAMBDA m : m.name # (IF HasKey(skill, "name") THEN skill.name ELSE None))

\* the scan of the catalog without its i-th record leaves the scores of the
\* others as they are and, when the limit cuts nothing, their ranking too
SameWithout(i, query_domains) ==
    \E alone \in {RankWithDomains(query, Without(skills, i), limit, signals, query_domains)} :
        /\ alone.scored = Without(scored, i)
        /\ limit >= Len(skills) => alone.matches = NotOf(matches, skills[i])

\* C17: a record that lacks keywords, triggers, domains or description is
\* scored as if the missing lists were empty and the missing description
\* were ""; it never aborts the scan; every other record of the catalog is
\* scored and ranked as it would be without it.
C17_MissingFields ==
    /\ pc # "raised"
    /\ Ranked =>
          \E query_domains \in {detect_query_domains(query)} :
              /\ Len(scored) = Len(skills)
              /\ \E filled \in {RankWithDomains(query, FilledCatalog, limit, signals, query_domains)} :
                    /\ scored = filled.scored
                    /\ matches = filled.matches
              /\ \A i \in 1..Len(skills) : Lacks(skills[i]) => SameWithout(i, query_domains)

\* a catalog with a record that lacks all four fields and another record has
\* been scanned, and both are in the match list
C17_Witness ==
    /\ Ranked
    /\ Len(skills) = 2
    /\ \E i \in 1..2 : DOMAIN skills[i] = {"name"}
    /\ \E i \in 1..2 : ~Lacks(skills[i])
    /\ Len(matches) = 2

-----------------------------------------------------------------------------
(* Exceptions, checked under Spec *)

\* C18: for every query and every catalog content, records whose name is
\* missing or null included, triage_request returns a Result (success or
\* failure) and lets no exception escape.
C18_NoExceptionEscapes ==
    /\ pc # "raised"
    /\ pc \in {"returned", "failed"} => (result # None /\ result[1].success \in BOOLEAN)

-----------------------------------------------------------------------------
(* The domain names of the two scripts, checked under SpecDiscover *)

\* the domain names of the triage vocabulary
VocabularyNames == {vocabulary[d][1] : d \in 1..Len(vocabulary)}

\* C20: every domain name classify_domain attaches to a skill record, its
\* fallback included, is a domain name of DOMAIN_SYNONYMS.
C20_DomainsInVocabulary ==
    pc = "discovered" => SeqToSet(discovered[1].domains) \subseteq VocabularyNames

-----------------------------------------------------------------------------
(* Interleaved calls, checked under SpecCalls *)

\* the catalog as it was loaded from the index file
LoadedCatalog == index_file.document[1].skills

\* the call of caller c has returned what the functions return for its query
\* and the loaded catalog when run on their own
AsAlone(c) ==
    \E classified \in {classify_input(calls[c].query)} :
        \E found \in {find_matching_skills(calls[c].query, LoadedCatalog, DefaultLimit,
                                           classified[2])} :
            /\ calls[c].category = Some(classified[1])
            /\ calls[c].signals = classified[2]
            /\ calls[c].matches = found.matches
            /\ calls[c].action =
                  Some(make_triage_decision(classified[1], classified[2], found.matches,
                                            calls[c].query)[1])

\* C19: any number of triage calls, one after another or interleaved by
\* several callers on the same catalog, leave the domain vocabulary and
\* every skill record of the catalog unchanged, and each call returns the
\* category, matches and action it would return if run alone on its query
\* and that catalog.
C19_CallsIndependent ==
    /\ vocabulary = DOMAIN_SYNONYMS
    /\ skills = LoadedCatalog
    /\ \A c \in Callers : calls[c].pc = "done" => AsAlone(c)

\* a caller has finished its second call while the other, with another
\* query, is in the middle of its scan of the catalog
C19_Witness ==
    \E c, d \in Callers :
        /\ c # d
        /\ calls[c].pc = "done"
        /\ calls[c].round = 2
        /\ calls[c].matches # <<>>
        /\ calls[d].pc = "scan"
        /\ calls[d].next = 2
        /\ calls[d].found # <<>>
        /\ calls[d].query # calls[c].query

-----------------------------------------------------------------------------
(* The boosts and the cut of find_matching_skills, checked under SpecRank *)

\* the name the entry of a record carries: skill.get("name")
EntryName(skill) == IF HasKey(skill, "name") THEN skill.name ELSE None

\* the record has an entry in the match list
Listed(skill) == \E k \in 1..Len(matches) : matches[k].name = EntryName(skill)

BoostTags == {"error context boost", "code context boost", "URL context boost"}

\* the entry of the record carries the tag of a context boost
BoostedEntry(skill) ==
    \E k \in 1..Len(matches) :
        /\ matches[k].name = EntryName(skill)
        /\ SeqToSet(matches[k].reasons) \cap BoostTags # {}

\* C21: a skill is in the output of find_matching_skills only if its base
\* score calculate_match_score(query, skill) is above 0, and the context
\* boosts (+25 error, +15 code, +10 URL) are applied only to skills whose
\* base score is above 0.
C21_BoostsNeedBaseScore ==
    Ranked =>
        \A i \in 1..Len(skills) :
            /\ Listed(skills[i]) => scored[i].score > 0
            /\ BoostedEntry(skills[i]) => scored[i].score > 0

\* the final score of each record of the catalog: boosted, then clamped
FinalScores(query_domains) ==
    AsList([i \in 1..Len(skills) |->
               CappedScore(BoostedScore(skills[i], scored[i], signals, query_domains).score)])

\* the place in the catalog of the record an entry was made for
PlaceOf(m) == CHOOSE i \in 1..Len(skills) : EntryName(skills[i]) = m.name

\* the output is the first `limit` of the qualifying records by final score
FirstOfRanking(final) ==
    /\ Len(matches) = Min({limit, Cardinality({i \in 1..Len(skills) : final[i] > 0})})
    /\ \A k \in 1..Len(matches) : matches[k].score = final[PlaceOf(matches[k])]
    /\ \A i \in 1..Len(skills) :
          (final[i] > 0 /\ ~Listed(skills[i])) =>
              \A k \in 1..Len(matches) : final[i] <= matches[k].score
    /\ \A k, l \in 1..Len(matches) :
          (k < l /\ matches[k].score = matches[l].score) =>
              PlaceOf(matches[k]) < PlaceOf(matches[l])

\* C22: the output of find_matching_skills is the first `limit` entries of
\* the qualifying skills sorted by descending final score, ties in catalog
\* order: its length is min(limit, number of qualifying skills), no omitted
\* skill has a higher final score than an included one, of two skills with
\* equal final score the one earlier in the catalog comes first; with the
\* default limit there are at most 5 entries.
C22_FirstOfStableRanking ==
    Ranked =>
        /\ \E query_domains \in {detect_query_domains(query)} :
              FirstOfRanking(FinalScores(query_domains))
        /\ limit = DefaultLimit => Len(matches) <= 5

\* two records with the same final score are both listed, and in another
\* run the limit has cut a list of two qualifying records to one
C22_Witness ==
    /\ Ranked
    /\ Len(matches) = 2
    /\ matches[1].score = matches[2].score

C22_WitnessCut ==
    /\ Ranked
    /\ limit = 1
    /\ Len(matches) = 1
    /\ \A i \in 1..Len(skills) : scored[i].score > 0
    /\ Len(skills) = 2

-----------------------------------------------------------------------------
(* Properties of detect_query_domains, checked under SpecDetect *)

\* the terms of the d-th domain of the dictionary that are in the text
TermsIn(d, text) ==
    {DOMAIN_SYNONYMS[d][2][t] : t \in {u \in 1..Len(DOMAIN_SYNONYMS[d][2]) :
                                          Contains(text, DOMAIN_SYNONYMS[d][2][u])}}

\* C23: detect_query_domains returns each domain of the vocabulary at most
\* once, a domain being present if and only if one of its terms is a
\* substring of the lower-cased query; each entry lists exactly the terms of
\* its domain that matched; the entries are ordered by non-increasing number
\* of matched terms.
C23_DetectedDomains ==
    pc = "detected" =>
        /\ \A k, l \in 1..Len(detection) : k # l => detection[k][1] # detection[l][1]
        /\ \A d \in 1..Len(DOMAIN_SYNONYMS) :
              \E terms \in {TermsIn(d, Lower(query))} :
                  /\ (\E k \in 1..Len(detection) : detection[k][1] = DOMAIN_SYNONYMS[d][1])
                        <=> terms # {}
                  /\ \A k \in 1..Len(detection) :
                        detection[k][1] = DOMAIN_SYNONYMS[d][1] =>
                            /\ SeqToSet(detection[k][2]) = terms
                            /\ Len(detection[k][2]) = Cardinality(terms)
        /\ \A k \in 1..Len(detection) :
              \E d \in 1..Len(DOMAIN_SYNONYMS) : detection[k][1] = DOMAIN_SYNONYMS[d][1]
        /\ \A k \in 1..(Len(detection) - 1) :
              Len(detection[k][2]) >= Len(detection[k + 1][2])

\* a query in capitals has a domain with three matched terms listed ahead of
\* a domain that comes earlier in the dictionary
C23_Witness ==
    /\ pc = "detected"
    /\ query # Lower(query)
    /\ Len(detection) >= 2
    /\ Len(detection[1][2]) = 3
    /\ detection[1][1] = "testing"
    /\ \E k \in 2..Len(detection) : detection[k][1] = "pdf"

-----------------------------------------------------------------------------
(* Properties of the steps of the scoring, checked under SpecScore *)

\* the step-by-step turn ends with the entry find_matching_skills makes
TurnAgrees ==
    pc = "next" =>
        /\ scored = <<calculate_match_score(query, TheSkill)>>
        /\ matches = find_matching_skills(query, skills, DefaultLimit, signals).matches

\* the places in the detected list of the domains the skill is tagged with
TaggedPlaces ==
    {k \in 1..Len(detect_query_domains(query)) :
        detect_query_domains(query)[k][1] \in SeqToSet(MapLower(GetList(TheSkill, "domains")))}

\* the reasons of the domain step
DomainReasons == SelectSeq(running[1].reasons, LAMBDA r : SubSeq(r, 1, 8) = "domain: ")

\* C24: the domain-match step contributes for at most one domain: the
\* highest-ranked detected domain that is in the skill's domain set adds
\* min(50, 35 + 5 * number of its matched terms), no further detected domain
\* adds anything, and the contribution is 0 or a value in 40..50.
C24_OneDomainContributes ==
    pc = "keyword" =>
        /\ running[1].score \in {0} \cup 40..50
        /\ Len(DomainReasons) <= 1
        /\ TaggedPlaces = {} => (running[1].score = 0 /\ DomainReasons = <<>>)
        /\ TaggedPlaces # {} =>
              \E terms \in {detect_query_domains(query)[Min(TaggedPlaces)][2]} :
                  /\ running[1].score = Min({50, 35 + 5 * Len(terms)})
                  /\ Len(DomainReasons) = 1

\* the domain step has added 40 for a skill tagged with three detected
\* domains, and in another run 50 for a domain with three matched terms
C24_Witness ==
    /\ pc = "keyword"
    /\ Cardinality(TaggedPlaces) = 3
    /\ running[1].score = 40

C24_WitnessFifty ==
    /\ pc = "keyword"
    /\ running[1].score = 50


\* C25: every step that adds a positive amount to the score appends a reason
\* for that step, so that each contribution (domain, keyword or description
\* from a domain, name, trigger, keyword overlap, description overlap, and
\* the boosts of find_matching_skills) is explained by an entry of reasons.
C25_EveryAdditionHasReason ==
    [][running'[1].score > running[1].score
          => Len(running'[1].reasons) = Len(running[1].reasons) + 1]_vars


-----------------------------------------------------------------------------
(* Properties of classify_input on improvement requests, checked under SpecImprove *)

\* C26: when a request is classified EXPLICIT_IMPROVE through the form
\* "<verb> [the] X skill", the verb being one of improve, enhance, update,
\* upgrade, fix and extend, mentioned_skill_name is X; for "<verb> the skill"
\* it stays unset, and it is never "the".
C26_MentionedSkillName ==
    (pc = "load" /\ category = Some(EXPLICIT_IMPROVE)) =>
        \A r \in ImproveRequests :
            query = r.text =>
                /\ r.x # "" => signals.mentioned_skill_name = Some(r.x)
                /\ r.x = "" => signals.mentioned_skill_name = None
                /\ signals.mentioned_skill_name # Some("the")


-----------------------------------------------------------------------------
(* Properties of triage_request on texts with context, checked under SpecContext *)

\* the boosts named in the reasons of the match list
BoostsApplied ==
    {tag \in BoostTags : \E k \in 1..Len(matches) : InReasons(matches[k].reasons, tag)}

\* C27: has_error is set exactly when the category is ERROR_MESSAGE,
\* has_code exactly when it is CODE_SNIPPET, has_url exactly when it is
\* URL_CONTENT; at most one of the flags is set, so at most one of the three
\* context boosts applies in a triage call, and none applies to a text that
\* an earlier rule group has claimed.
C27_OneContextFlag ==
    pc \in {"decide", "done", "returned"} /\ ~NotIndex(load_skill_index(index_file)) =>
        /\ signals.has_error <=> category = Some(ERROR_MESSAGE)
        /\ signals.has_code <=> category = Some(CODE_SNIPPET)
        /\ signals.has_url <=> category = Some(URL_CONTENT)
        /\ Cardinality({f \in {"has_error", "has_code", "has_url"} : signals[f]}) <= 1
        /\ Cardinality(BoostsApplied) <= 1
        /\ "error context boost" \in BoostsApplied => category = Some(ERROR_MESSAGE)
        /\ "code context boost" \in BoostsApplied => category = Some(CODE_SNIPPET)
        /\ "URL context boost" \in BoostsApplied => category = Some(URL_CONTENT)

\* a text with an error and a URL in it: the error boost alone is applied
C27_Witness ==
    /\ pc = "returned"
    /\ query = "TypeError: x\nsee https://a.io"
    /\ skills = <<BugHunter, ApiGuard>>
    /\ BoostsApplied = {"error context boost"}

\* a request to improve a skill with an error in it: no boost is applied
C27_WitnessEarlierGroup ==
    /\ pc = "returned"
    /\ category = Some(EXPLICIT_IMPROVE)
    /\ AnyMatch(ERROR_PATTERNS(query))
    /\ skills = <<Notes, BugHunter>>
    /\ Len(matches) = 2
    /\ BoostsApplied = {}


\* the places in the catalog of the skills whose name contains the mentioned
\* skill name, both taken in lower case
NamedInCatalog ==
    IF signals.mentioned_skill_name = None THEN {}
    ELSE {i \in 1..Len(skills) :
             /\ EntryName(skills[i]) # None
             /\ Contains(Lower(EntryName(skills[i])[1]), Lower(signals.mentioned_skill_name[1]))}

\* C28: in a whole triage call, when the category is EXPLICIT_IMPROVE and the
\* mentioned skill name is a case-insensitive substring of the name of a
\* skill of the catalog, the action is IMPROVE_EXISTING and target_skill
\* contains the name: the named skill is never lost on the way, by scoring 0
\* or by falling outside the listed matches.
C28_NamedSkillIsFound ==
    (pc = "done" /\ category = Some(EXPLICIT_IMPROVE) /\ NamedInCatalog # {}) =>
        /\ action = Some(IMPROVE_EXISTING)
        /\ HasField("target_skill")
        /\ Contains(Lower(details[1].target_skill[1]), Lower(signals.mentioned_skill_name[1]))


\* the matched terms and the names of the detected domains of a query
DetectedTerms(query_domains) ==
    UNION {SeqToSet(query_domains[k][2]) \cup {query_domains[k][1], Replace(query_domains[k][1], "_", " ")} :
              k \in 1..Len(query_domains)}

\* the record shares no domain, keyword, trigger phrase, name word or
\* description word with the query; an empty name or trigger is no share
SharesNothing(q, sk, query_domains) ==
    /\ sk.domains \cap {query_domains[k][1] : k \in 1..Len(query_domains)} = {}
    /\ sk.keywords \cap (WordSet(Lower(q)) \cup DetectedTerms(query_domains)) = {}
    /\ \A t \in 1..Len(sk.triggers) : sk.triggers[t] = "" \/ ~Contains(Lower(q), sk.triggers[t])
    /\ sk.name = "" \/ (~Contains(Lower(q), sk.name) /\ NameOverlap(Split(Lower(q)), sk) = <<>>)
    /\ WordSet(sk.description) \cap WordSet(Lower(q)) = {}
    /\ \A term \in DetectedTerms(query_domains) : ~Contains(sk.description, term)

\* C29: with no context flag set, a record that shares no domain, keyword,
\* trigger phrase, name word or description word with the query scores 0 and
\* is left out of the matches; so does a record whose name is missing or
\* empty, and a record with an empty trigger phrase.
C29_NothingSharedScoresZero ==
    (/\ pc = "next"
     /\ ~signals.has_error /\ ~signals.has_code /\ ~signals.has_url
     /\ SharesNothing(query, SkillFields(TheSkill), detect_query_domains(query)))
    => /\ scored[1].score = 0
       /\ matches = <<>>


\* C30: in find_matching_skills, whenever the lower-cased domains of a skill
\* and the detected domains of the query have a domain in common, the base
\* score is already at least 40, so the test score > 0 never holds back the
\* alignment boost; every skill that receives the boost min(15, 5 * k) has a
\* final score of at least 45, and the final score is never lower than the
\* base score.
C30_AlignmentBoostNeverBlocked ==
    /\ (pc \in {"error boost", "code boost", "url boost", "alignment boost", "append", "next"}
        /\ MatchingDomains # {})
       => scored[1].score >= 40
    /\ (pc = "alignment boost" /\ MatchingDomains # {}) => running[1].score > 0
    /\ (pc \in {"append", "next"} /\ MatchingDomains # {}) => CappedScore(running[1].score) >= 45
    /\ pc \in {"append", "next"} => CappedScore(running[1].score) >= scored[1].score
    /\ (pc = "next" /\ MatchingDomains # {})
       => (Len(matches) = 1 /\ matches[1].score >= 45 /\ matches[1].score >= scored[1].score)

\* a skill with one domain in common with the query has got 5 more than its
\* base score; in another run a base score of 100 has stayed 100
C30_Witness ==
    /\ pc = "next"
    /\ Cardinality(MatchingDomains) = 1
    /\ ~signals.has_error /\ ~signals.has_code /\ ~signals.has_url
    /\ matches[1].score = scored[1].score + 5

C30_WitnessCapped ==
    /\ pc = "next"
    /\ Cardinality(MatchingDomains) = 3
    /\ scored[1].score = 100
    /\ matches[1].score = 100

====
